---- MODULE Spec2Model ----
(***************************************************************************)
(* A model of clang/lib/Sema/SemaConcept.cpp: constraint satisfaction      *)
(* (with the satisfaction cache), normal forms and subsumption, and the    *)
(* at-least-as-constrained ordering (with the subsumption cache).          *)
(***************************************************************************)
EXTENDS Integers, Sequences, FiniteSets, TLC

VARIABLES
    SatisfactionCache,  \* Sema::SatisfactionCache: profile key -> cached node
    SubsumptionCache,   \* Sema::SubsumptionCache: <<D1, D2>> -> bool
    instDepth,          \* number of frames on Sema's instantiation stack
    call,               \* the last completed call: its arguments and results
    returned            \* ghost: what every earlier cached call returned

vars == <<SatisfactionCache, SubsumptionCache, instDepth, call, returned>>

(***************************************************************************)
(* Bounds of the model.                                                    *)
(***************************************************************************)
\* Nodes (leaves, connectives, wrappers) of a constraint expression.
MaxExprSize == 5
\* Frames the instantiation stack holds before a push is refused.
InstantiationDepthLimit == 2

(***************************************************************************)
(* Constraint expressions.  A node is a tuple whose first component is its *)
(* class; an Expr* is a pair <<root, path>>: the root expression and the   *)
(* path (1 = LHS or sub-expression, 2 = RHS) from it to the node.          *)
(***************************************************************************)
Atom(id) == <<"atom", id>>
LAnd(l, r) == <<"BO_LAnd", l, r>>
LOr(l, r) == <<"BO_LOr", l, r>>
Paren(e) == <<"ParenExpr", e>>
Cleanups(e) == <<"ExprWithCleanups", e>>

Class(e) == e[1]
isLogical(e) == Class(e) \in {"BO_LAnd", "BO_LOr"}
isWrapper(e) == Class(e) \in {"ParenExpr", "ExprWithCleanups"}
getLHS(e) == e[2]
getRHS(e) == e[3]
getSubExpr(e) == e[2]

RECURSIVE NodeAt(_, _)
NodeAt(root, path) ==
    IF path = <<>> THEN root
    ELSE NodeAt(root[Head(path) + 1], Tail(path))

Ptr(root, path) == <<root, path>>
Node(E) == NodeAt(E[1], E[2])
Child(E, i) == <<E[1], Append(E[2], i)>>

\* p is a (non-strict) prefix of q
IsPrefix(p, q) == Len(p) <= Len(q) /\ SubSeq(q, 1, Len(p)) = p

\* Leaves.  Non-dependent ones: the constants true and false, a bool-typed
\* expression that is not a constant expression, an int-typed constant.
\* "Dep" is still instantiation-dependent after substitution.  dA, dB, dC
\* mention template parameters: what they become is decided by SubstExpr.
NonDependentLeaves == {"T", "F", "N", "I"}
DependentAtoms == {"dA", "dB", "dC"}
SourceLeaves == {"T", "F"} \cup DependentAtoms

RECURSIVE ExprsOfSize(_, _)
ExprsOfSize(leaves, n) ==
    IF n = 1 THEN {Atom(l) : l \in leaves}
    ELSE LET sub == ExprsOfSize(leaves, n - 1)
         IN  {Paren(e) : e \in sub} \cup {Cleanups(e) : e \in sub}
             \cup UNION { LET ls == ExprsOfSize(leaves, i)
                              rs == ExprsOfSize(leaves, n - 1 - i)
                          IN  {LAnd(l, r) : l \in ls, r \in rs}
                              \cup {LOr(l, r) : l \in ls, r \in rs}
                        : i \in 1..(n - 2) }

\* Constraint expressions as written in a template (before substitution).
SourceExprs == UNION {ExprsOfSize(SourceLeaves, n) : n \in 1..MaxExprSize}
\* Constraint expressions that need no substitution.
SubstitutedExprs ==
    UNION {ExprsOfSize(NonDependentLeaves, n) : n \in 1..MaxExprSize}

(***************************************************************************)
(* Template arguments.  A MultiLevelTemplateArgumentList is a sequence of  *)
(* levels, outermost first; a level is a sequence of arguments.            *)
(***************************************************************************)
getNumLevels(MLTAL) == Len(MLTAL)
getInnermost(MLTAL) == MLTAL[Len(MLTAL)]

ArgLists == { <<"int">>, <<"S">> }
MLTALs == { <<a>> : a \in ArgLists } \cup { <<<<"S">>, <<"int">>>> }

(***************************************************************************)
(* The collaborators of the evaluator (Sema::SubstExpr under a SFINAE      *)
(* trap, the expression's type and dependence, Expr::EvaluateAsRValue).    *)
(***************************************************************************)
SubstResult(inv, trap, e) == [invalid |-> inv, trapped |-> trap, expr |-> e]

\* S.SubstExpr(AtomicExpr, TemplateArgs) with Trap.hasErrorOccurred().
SubstExpr(e, TemplateArgs) ==
    LET id == e[2]
        inner == getInnermost(TemplateArgs)
        outer == IF getNumLevels(TemplateArgs) > 1 THEN TemplateArgs[1] ELSE <<>>
    IN  CASE id = "dA" /\ inner = <<"int">> -> SubstResult(TRUE, FALSE, e)
          [] id = "dA" /\ inner = <<"S">> -> SubstResult(FALSE, FALSE, Atom("I"))
          [] id = "dB" /\ inner = <<"int">> /\ outer = <<>> ->
                 SubstResult(TRUE, TRUE, e)
          [] id = "dB" /\ inner = <<"int">> /\ outer # <<>> ->
                 SubstResult(FALSE, FALSE, Atom("T"))
          [] id = "dB" /\ inner = <<"S">> -> SubstResult(FALSE, TRUE, Atom("T"))
          [] id = "dC" /\ inner = <<"int">> -> SubstResult(FALSE, FALSE, Atom("Dep"))
          [] id = "dC" /\ inner = <<"S">> -> SubstResult(FALSE, FALSE, Atom("N"))
          [] OTHER -> SubstResult(FALSE, FALSE, e)

RECURSIVE isTypeDependent(_)
isTypeDependent(e) ==
    IF isLogical(e) THEN isTypeDependent(getLHS(e)) \/ isTypeDependent(getRHS(e))
    ELSE IF isWrapper(e) THEN isTypeDependent(getSubExpr(e))
    ELSE e[2] \in DependentAtoms \cup {"Dep"}

isInstantiationDependent(e) == isTypeDependent(e)
containsUnexpandedParameterPack(e) == e = Atom("Dep")

\* IgnoreParenImpCasts()->getType().getNonReferenceType().getUnqualifiedType()
RECURSIVE getType(_)
getType(e) ==
    IF isLogical(e) THEN "bool"
    ELSE IF isWrapper(e) THEN getType(getSubExpr(e))
    ELSE IF e[2] = "I" THEN "int" ELSE "bool"

\* Expr::EvaluateAsRValue on a non-dependent expression: "nonconst" when it
\* is not a constant expression, else the value's getBoolValue().
RECURSIVE EvaluateAsRValue(_)
EvaluateAsRValue(e) ==
    IF isWrapper(e) THEN EvaluateAsRValue(getSubExpr(e))
    ELSE IF isLogical(e) THEN
        LET l == EvaluateAsRValue(getLHS(e))
            r == EvaluateAsRValue(getRHS(e))
        IN  IF l = "nonconst" THEN "nonconst"
            ELSE IF Class(e) = "BO_LAnd" /\ l = "false" THEN "false"
            ELSE IF Class(e) = "BO_LOr" /\ l = "true" THEN "true"
            ELSE r
    ELSE CASE e[2] = "T" -> "true"
           [] e[2] = "I" -> "true"
           [] e[2] = "F" -> "false"
           [] OTHER -> "nonconst"

(***************************************************************************)
(* Sema::CheckConstraintExpression.  Returns whether the expression is     *)
(* well-formed, the locations of the errors emitted, and the value left in *)
(* *Culprit (<<>> when it was not written).                                *)
(***************************************************************************)
CheckResult(ok, diags, culprit, checked) ==
    [ok |-> ok, Diags |-> diags, Culprit |-> culprit, Checked |-> checked]

\* The atomic case: a type-dependent expression is accepted, another one
\* must have type bool.
CheckAtomicConstraint(E, hasCulprit) ==
    IF isTypeDependent(Node(E)) THEN CheckResult(TRUE, <<>>, <<>>, <<E>>)
    ELSE IF getType(Node(E)) # "bool"
         THEN CheckResult(FALSE, <<E>>, IF hasCulprit THEN E ELSE <<>>, <<E>>)
         ELSE CheckResult(TRUE, <<>>, <<>>, <<E>>)

\* CheckConstraintExpression(LHS) && CheckConstraintExpression(RHS)
BothChecked(l, r) ==
    CheckResult(l.ok /\ r.ok, l.Diags \o r.Diags, <<>>, l.Checked \o r.Checked)

\* Mutant of CheckConstraintExpression: the right operand is checked even
\* when the left one was refused.
RECURSIVE CheckConstraintExpression_ChecksBoth(_, _)
CheckConstraintExpression_ChecksBoth(E, hasCulprit) ==
    IF isLogical(Node(E)) THEN
        BothChecked(CheckConstraintExpression_ChecksBoth(Child(E, 1), FALSE),
                    CheckConstraintExpression_ChecksBoth(Child(E, 2), FALSE))
    ELSE CheckAtomicConstraint(E, hasCulprit)

RECURSIVE CheckConstraintExpression(_, _)
CheckConstraintExpression(E, hasCulprit) ==
    IF isLogical(Node(E)) THEN
        \* the recursive calls pass no Culprit
        LET l == CheckConstraintExpression(Child(E, 1), FALSE)
        IN  IF ~l.ok THEN l
            ELSE BothChecked(l, CheckConstraintExpression(Child(E, 2), FALSE))
    ELSE CheckAtomicConstraint(E, hasCulprit)

(***************************************************************************)
(* The state an evaluation works on: the ConstraintSatisfaction being      *)
(* filled, the out-flags, and Sema's instantiation stack and diagnostics.  *)
(* Log is a ghost trace of the calls made to the collaborators.            *)
(***************************************************************************)
EvalState(depth) ==
    [IsSatisfied |-> FALSE, Details |-> <<>>,
     IsDependent |-> FALSE, ContainsUnexpandedParameterPack |-> FALSE,
     Depth |-> depth, Diags |-> 0, Log |-> <<>>]

Logged(st, op, kind, E) == [st EXCEPT !.Log = Append(@, <<op, kind, E>>)]

\* Sema::InstantiatingTemplate: the constructor refuses the frame when the
\* stack is full; the destructor of a valid frame releases it.
InstIsInvalid(st) == st.Depth >= InstantiationDepthLimit
RefusedFrame(st, kind, E) == Logged(st, "refused", kind, E)
PushFrame(st, kind, E) ==
    [Logged(st, "push", kind, E) EXCEPT !.Depth = @ + 1]
PopFrame(st, kind, E) ==
    [Logged(st, "pop", kind, E) EXCEPT !.Depth = @ - 1]
EmitError(st) == [st EXCEPT !.Diags = @ + 1]

\* An UnsatisfiedConstraintRecord: the atomic expression and either the
\* substitution diagnostic or the substituted expression.
SubstitutionDiagnostic(AtomicExpr) == <<"PartialDiagnosticAt", AtomicExpr>>
SubstitutedExpression(e) == <<"Expr", e>>
Detail(AtomicExpr, record) == <<AtomicExpr, record>>

\* What an AtomicEvaluator hands back: ExprError(), ExprEmpty() or an
\* expression.
ExprError(st) == [res |-> "Invalid", expr |-> <<>>, st |-> st]
ExprEmpty(st) == [res |-> "Empty", expr |-> <<>>, st |-> st]
ExprUsable(e, st) == [res |-> "Usable", expr |-> e, st |-> st]

(***************************************************************************)
(* The substituting evaluator (the lambda of the second overload of        *)
(* calculateConstraintSatisfaction).  ev holds what the lambda captures.   *)
(***************************************************************************)
\* SubstitutedExpression.isInvalid() || Trap.hasErrorOccurred()
SubstitutionFailed(r) == r.invalid \/ r.trapped

\* Mutant of OnSubstitutionFailure: the frame is not released on the hard
\* error path.
OnSubstitutionFailure_LeaksFrame(AtomicExpr, r, ev, st) ==
    IF ~r.trapped
    THEN ExprError(EmitError(st))
    ELSE ExprEmpty(PopFrame(
             [st EXCEPT !.Details =
                            Append(@, Detail(AtomicExpr,
                                             SubstitutionDiagnostic(AtomicExpr))),
                        !.IsSatisfied = FALSE],
             ev.Creator, AtomicExpr))

\* Mutant of OnSubstitutionFailure: every invalid result is taken for a
\* hard error, whether or not the trap caught it.
OnSubstitutionFailure_InvalidIsHard(AtomicExpr, r, ev, st) ==
    IF r.invalid
    THEN ExprError(PopFrame(EmitError(st), ev.Creator, AtomicExpr))
    ELSE ExprEmpty(PopFrame(
             [st EXCEPT !.Details =
                            Append(@, Detail(AtomicExpr,
                                             SubstitutionDiagnostic(AtomicExpr))),
                        !.IsSatisfied = FALSE],
             ev.Creator, AtomicExpr))

\* The branch taken when the substitution failed; the frame Inst is
\* released on the way out of the block.
OnSubstitutionFailure(AtomicExpr, r, ev, st) ==
    IF ~r.trapped
    THEN ExprError(PopFrame(EmitError(st), ev.Creator, AtomicExpr))
    ELSE ExprEmpty(PopFrame(
             [st EXCEPT !.Details =
                            Append(@, Detail(AtomicExpr,
                                             SubstitutionDiagnostic(AtomicExpr))),
                        !.IsSatisfied = FALSE],
             ev.Creator, AtomicExpr))

\* After a successful substitution, with Inst released at the end of
\* the block.
OnSubstitutionSuccess(AtomicExpr, r, ev, st) ==
    LET s1 == PopFrame(st, ev.Creator, AtomicExpr)
        s2 == IF ev.hasFlags
              THEN [s1 EXCEPT !.ContainsUnexpandedParameterPack =
                                  @ \/ containsUnexpandedParameterPack(r.expr)]
              ELSE s1
    IN  IF isInstantiationDependent(r.expr)
        THEN ExprEmpty([s2 EXCEPT !.IsDependent = @ \/ ev.hasFlags,
                                  !.IsSatisfied = TRUE])
        ELSE LET s3 == Logged(s2, "CheckConstraintExpression", "", AtomicExpr)
                 chk == CheckConstraintExpression(Ptr(r.expr, <<>>), FALSE)
             IN  IF ~chk.ok
                 THEN ExprError([s3 EXCEPT !.Diags = @ + Len(chk.Diags)])
                 ELSE ExprUsable(r.expr, s3)

SubstitutingEvaluator(AtomicExpr, ev, st) ==
    IF InstIsInvalid(st)
    THEN ExprError(RefusedFrame(st, ev.Creator, AtomicExpr))
    ELSE LET s1 == PushFrame(st, ev.Creator, AtomicExpr)
             s2 == Logged(s1, "SubstExpr", "", AtomicExpr)
             r == SubstExpr(Node(AtomicExpr), ev.TemplateArgs)
         IN  IF SubstitutionFailed(r)
             THEN OnSubstitutionFailure(AtomicExpr, r, ev, s2)
             ELSE OnSubstitutionSuccess(AtomicExpr, r, ev, s2)

\* The evaluator of the overload that substitutes nothing.
IdentityEvaluator(AtomicExpr, ev, st) == ExprUsable(Node(AtomicExpr), st)

Evaluator(AtomicExpr, ev, st) ==
    IF ev.kind = "Substituting" THEN SubstitutingEvaluator(AtomicExpr, ev, st)
    ELSE IdentityEvaluator(AtomicExpr, ev, st)

(***************************************************************************)
(* calculateConstraintSatisfaction (first overload).  Returns ret (true:   *)
(* the evaluation failed hard) and the state it left.                      *)
(***************************************************************************)
Returned(ret, st) == [ret |-> ret, st |-> st]

\* Mutants of ShortCircuits: the conjunction case lost; the disjunction
\* case lost.
ShortCircuits_NoAnd(Opcode, IsLHSSatisfied) ==
    Opcode = "BO_LOr" /\ IsLHSSatisfied
ShortCircuits_NoOr(Opcode, IsLHSSatisfied) ==
    Opcode = "BO_LAnd" /\ ~IsLHSSatisfied

\* Whether the RHS of a logical operator is skipped, given what the LHS
\* left in Satisfaction.IsSatisfied.
ShortCircuits(Opcode, IsLHSSatisfied) ==
    \/ Opcode = "BO_LOr" /\ IsLHSSatisfied
    \/ Opcode = "BO_LAnd" /\ ~IsLHSSatisfied

\* Constant evaluation of the substituted atomic expression.
EvaluateSubstituted(ConstraintExpr, SubstitutedAtomicExpr, st) ==
    LET s1 == Logged(st, "EvaluateAsRValue", "", ConstraintExpr)
        v == EvaluateAsRValue(SubstitutedAtomicExpr)
    IN  IF v = "nonconst" THEN Returned(TRUE, EmitError(s1))
        ELSE IF v = "true" THEN Returned(FALSE, [s1 EXCEPT !.IsSatisfied = TRUE])
        ELSE Returned(FALSE,
                 [s1 EXCEPT !.IsSatisfied = FALSE,
                            !.Details =
                                Append(@, Detail(ConstraintExpr,
                                     SubstitutedExpression(SubstitutedAtomicExpr)))])

\* An atomic constraint expression
EvaluateAtomic(ConstraintExpr, ev, st) ==
    LET r == Evaluator(ConstraintExpr, ev, st)
    IN  IF r.res = "Invalid" THEN Returned(TRUE, r.st)
        ELSE IF r.res = "Empty" THEN Returned(FALSE, r.st)
        ELSE EvaluateSubstituted(ConstraintExpr, r.expr, r.st)

RECURSIVE calculateConstraintSatisfaction(_, _, _)
calculateConstraintSatisfaction(ConstraintExpr, ev, st) ==
    LET n == Node(ConstraintExpr)
    IN  IF isLogical(n) THEN
            LET l == calculateConstraintSatisfaction(Child(ConstraintExpr, 1),
                                                     ev, st)
            IN  IF l.ret THEN l
                ELSE IF ShortCircuits(Class(n), l.st.IsSatisfied)
                     THEN Returned(FALSE, l.st)
                     ELSE calculateConstraintSatisfaction(
                              Child(ConstraintExpr, 2), ev, l.st)
        ELSE IF isWrapper(n) THEN
            calculateConstraintSatisfaction(Child(ConstraintExpr, 1), ev, st)
        ELSE EvaluateAtomic(ConstraintExpr, ev, st)

\* The static CheckConstraintSatisfaction: the clauses of a list, in order,
\* stopping at a hard failure or at the first unsatisfied clause.
RECURSIVE CheckConstraintExprs(_, _, _, _)
CheckConstraintExprs(ConstraintExprs, i, ev, st) ==
    IF i > Len(ConstraintExprs) THEN Returned(FALSE, st)
    ELSE LET r == calculateConstraintSatisfaction(
                      Ptr(ConstraintExprs[i], <<>>), ev, st)
         IN  IF r.ret THEN r
             ELSE IF ~r.st.IsSatisfied THEN Returned(FALSE, r.st)
             ELSE CheckConstraintExprs(ConstraintExprs, i + 1, ev, r.st)

(***************************************************************************)
(* The three public overloads of Sema::CheckConstraintSatisfaction.        *)
(***************************************************************************)
SubstitutingWith(TemplateArgs, Creator, hasFlags) ==
    [kind |-> "Substituting", TemplateArgs |-> TemplateArgs,
     Creator |-> Creator, hasFlags |-> hasFlags]
Identity ==
    [kind |-> "Identity", TemplateArgs |-> <<>>, Creator |-> "",
     hasFlags |-> FALSE]

\* CheckConstraintSatisfaction(const Expr *, ConstraintSatisfaction &)
CheckConstraintSatisfaction_Expr(ConstraintExpr, st) ==
    calculateConstraintSatisfaction(Ptr(ConstraintExpr, <<>>), Identity, st)

\* CheckConstraintSatisfaction(NestedRequirement *, ...): the frame Inst is
\* released when the function returns.
CheckConstraintSatisfaction_Nested(ConstraintExpr, TemplateArgs, st) ==
    LET s0 == [st EXCEPT !.IsDependent = FALSE,
                         !.ContainsUnexpandedParameterPack = FALSE]
        E == Ptr(ConstraintExpr, <<>>)
    IN  IF InstIsInvalid(s0)
        THEN Returned(TRUE, RefusedFrame(s0, "ConstraintsCheck", E))
        ELSE LET r == CheckConstraintExprs(
                          <<ConstraintExpr>>, 1,
                          SubstitutingWith(TemplateArgs, "NestedRequirement", TRUE),
                          PushFrame(s0, "ConstraintsCheck", E))
             IN  Returned(r.ret, PopFrame(r.st, "ConstraintsCheck", E))

\* ConstraintSatisfaction::Profile: the canonical declaration of the owner
\* and the profiles of the innermost template arguments.
getCanonicalDecl(D) == IF D = "X2" THEN "X" ELSE D
\* Mutant of Profile: the owner is profiled as written.
Profile_AsWritten(ConstraintOwner, TemplateArgs) ==
    <<ConstraintOwner, TemplateArgs>>
Profile(ConstraintOwner, TemplateArgs) ==
    <<getCanonicalDecl(ConstraintOwner), TemplateArgs>>

\* SatisfactionCache.FindNodeOrInsertPos(ID, InsertPos) found a node
IsCached(Cache, ID) == ID \in DOMAIN Cache
\* SatisfactionCache.InsertNode(Cached)
InsertNode(Cache, ID, Cached) ==
    [k \in DOMAIN Cache \cup {ID} |-> IF k = ID THEN Cached ELSE Cache[k]]

\* A ConstraintSatisfaction: IsSatisfied and Details.
SatisfactionOf(st) == [IsSatisfied |-> st.IsSatisfied, Details |-> st.Details]
\* Satisfaction = *Cached
AssignSatisfaction(st, Cached) ==
    [st EXCEPT !.IsSatisfied = Cached.IsSatisfied, !.Details = Cached.Details]

\* Mutant of EvaluateAndInsert: the node is inserted before it is filled
\* and stays in the cache when the evaluation fails.
EvaluateAndInsert_KeepsFailedNode(ID, ConstraintExprs, TemplateArgs, Cache, st) ==
    LET E == Ptr(<<"TemplateId", ID>>, <<>>)
    IN  IF InstIsInvalid(st)
        THEN [ret |-> TRUE, st |-> RefusedFrame(st, "ConstraintsCheck", E),
              Cache |-> Cache]
        ELSE LET fresh == [PushFrame(st, "ConstraintsCheck", E)
                             EXCEPT !.IsSatisfied = FALSE, !.Details = <<>>]
                 r == CheckConstraintExprs(
                          ConstraintExprs, 1,
                          SubstitutingWith(TemplateArgs, "ConstraintSubstitution",
                                           FALSE),
                          fresh)
                 out == PopFrame(r.st, "ConstraintsCheck", E)
             IN  [ret |-> r.ret,
                  st |-> IF r.ret THEN AssignSatisfaction(out, SatisfactionOf(st))
                         ELSE out,
                  Cache |-> InsertNode(Cache, ID, SatisfactionOf(r.st))]

\* The miss branch: evaluate into a new node under a ConstraintsCheck frame
\* and insert it, unless the evaluation failed.  st holds the caller's
\* Satisfaction; the new node starts empty.
EvaluateAndInsert(ID, ConstraintExprs, TemplateArgs, Cache, st) ==
    LET E == Ptr(<<"TemplateId", ID>>, <<>>)
    IN  IF InstIsInvalid(st)
        THEN [ret |-> TRUE, st |-> RefusedFrame(st, "ConstraintsCheck", E),
              Cache |-> Cache]
        ELSE LET fresh == [PushFrame(st, "ConstraintsCheck", E)
                             EXCEPT !.IsSatisfied = FALSE, !.Details = <<>>]
                 r == CheckConstraintExprs(
                          ConstraintExprs, 1,
                          SubstitutingWith(TemplateArgs, "ConstraintSubstitution",
                                           FALSE),
                          fresh)
                 out == PopFrame(r.st, "ConstraintsCheck", E)
             IN  IF r.ret
                 THEN [ret |-> TRUE,
                       st |-> AssignSatisfaction(out, SatisfactionOf(st)),
                       Cache |-> Cache]
                 ELSE [ret |-> FALSE, st |-> out,
                       Cache |-> InsertNode(Cache, ID, SatisfactionOf(r.st))]

\* CheckConstraintSatisfaction(NamedDecl *ConstraintOwner, NamedDecl *Template,
\*     ArrayRef<const Expr *>, const MultiLevelTemplateArgumentList &, ...)
Sema_CheckConstraintSatisfaction(Owner, ConstraintExprs, TemplateArgs, Cache, st) ==
    IF ConstraintExprs = <<>>
    THEN [ret |-> FALSE, st |-> [st EXCEPT !.IsSatisfied = TRUE], Cache |-> Cache]
    ELSE LET ID == Profile(Owner, getInnermost(TemplateArgs))
         IN  IF IsCached(Cache, ID)
             THEN [ret |-> FALSE, st |-> AssignSatisfaction(st, Cache[ID]),
                   Cache |-> Cache]
             ELSE EvaluateAndInsert(ID, ConstraintExprs, TemplateArgs, Cache, st)

(***************************************************************************)
(* The state machine.  A call runs to completion in one step, starting at  *)
(* the current depth of the instantiation stack with a default-constructed *)
(* ConstraintSatisfaction, and leaves its arguments and results in call    *)
(* until the caller has taken them (call = Idle between calls).            *)
(***************************************************************************)
Idle == [op |-> "none"]

SatisfactionCall(op, Owner, Exprs, TemplateArgs, r) ==
    [op |-> op, ConstraintOwner |-> Owner, ConstraintExprs |-> Exprs,
     TemplateArgs |-> TemplateArgs,
     depthBefore |-> instDepth, cacheBefore |-> SatisfactionCache,
     ret |-> r.ret, IsSatisfied |-> r.st.IsSatisfied, Details |-> r.st.Details,
     IsDependent |-> r.st.IsDependent,
     ContainsUnexpandedParameterPack |-> r.st.ContainsUnexpandedParameterPack,
     Diags |-> r.st.Diags, Log |-> r.st.Log]

InitSema ==
    /\ SatisfactionCache = <<>>
    /\ SubsumptionCache = <<>>
    /\ instDepth = 0
    /\ call = Idle
    /\ returned = {}

\* The rest of the compiler enters and leaves template instantiations
\* around the calls.
EnterInstantiation ==
    /\ call = Idle
    /\ instDepth < InstantiationDepthLimit
    /\ instDepth' = instDepth + 1
    /\ call' = Idle
    /\ UNCHANGED <<SatisfactionCache, SubsumptionCache, returned>>

ExitInstantiation ==
    /\ call = Idle
    /\ instDepth > 0
    /\ instDepth' = instDepth - 1
    /\ call' = Idle
    /\ UNCHANGED <<SatisfactionCache, SubsumptionCache, returned>>

\* What a cached call that did not fail handed back to its caller.
Handed(c) ==
    [ConstraintOwner |-> getCanonicalDecl(c.ConstraintOwner),
     Innermost |-> getInnermost(c.TemplateArgs),
     NonEmpty |-> c.ConstraintExprs # <<>>,
     IsSatisfied |-> c.IsSatisfied, Details |-> c.Details]

\* What the first cached IsAtLeastAsConstrained call for a pair of
\* declarations with non-empty constraint lists handed back.
HandedOrder(c) == [D1 |-> c.D1, D2 |-> c.D2, ret |-> c.ret, Invalid |-> c.Invalid]
IsFirstOfPair(c) ==
    /\ c.op = "IsAtLeastAsConstrained"
    /\ c.AC1 # <<>> /\ c.AC2 # <<>>
    /\ <<c.D1, c.D2>> \notin DOMAIN c.cacheBefore

\* The caller takes the results; the next call can be made.
ReturnToCaller ==
    /\ call # Idle
    /\ ~("crashed" \in DOMAIN call /\ call.crashed)
    /\ call' = Idle
    /\ returned' = IF call.op = "Cached" /\ ~call.ret
                   THEN returned \cup {Handed(call)}
                   ELSE IF IsFirstOfPair(call)
                   THEN returned \cup {HandedOrder(call)}
                   ELSE returned
    /\ UNCHANGED <<SatisfactionCache, SubsumptionCache, instDepth>>

CallCheckConstraintSatisfaction_Expr ==
    /\ call = Idle
    /\ \E e \in SubstitutedExprs :
        LET r == CheckConstraintSatisfaction_Expr(e, EvalState(instDepth))
        IN  /\ call' = SatisfactionCall("Expr", "", <<e>>, <<>>, r)
            /\ instDepth' = r.st.Depth
            /\ UNCHANGED <<SatisfactionCache, SubsumptionCache, returned>>

CallCheckConstraintSatisfaction_Nested ==
    /\ call = Idle
    /\ \E e \in SourceExprs, TemplateArgs \in MLTALs :
        LET r == CheckConstraintSatisfaction_Nested(e, TemplateArgs,
                                                    EvalState(instDepth))
        IN  /\ call' = SatisfactionCall("Nested", "", <<e>>, TemplateArgs, r)
            /\ instDepth' = r.st.Depth
            /\ UNCHANGED <<SatisfactionCache, SubsumptionCache, returned>>

NextEval ==
    \/ EnterInstantiation
    \/ ExitInstantiation
    \/ ReturnToCaller
    \/ CallCheckConstraintSatisfaction_Expr
    \/ CallCheckConstraintSatisfaction_Nested

SpecEval == InitSema /\ [][NextEval]_vars

(***************************************************************************)
(* The cached overload, called from the places that check the associated   *)
(* constraints of a template against a template argument list.  X2 is a    *)
(* redeclaration of X.  The clauses of one list are distinct expression    *)
(* objects, so no list repeats a clause.                                   *)
(***************************************************************************)
CallSites ==
    { <<"X", <<<<"int">>>> >>, <<"X2", <<<<"int">>>> >>,
      <<"X", <<<<"S">>, <<"int">>>> >>, <<"Y", <<<<"S">>>> >> }

ClauseLists ==
    { <<>>,
      <<Atom("T")>>, <<Atom("F")>>, <<Atom("dA")>>, <<Atom("dB")>>,
      <<Atom("dC")>>,
      <<Atom("T"), Atom("dB")>>, <<Atom("dB"), Atom("dA")>>,
      <<Atom("T"), Atom("dA")>>,
      <<LOr(Atom("dB"), Atom("T"))>>, <<LOr(Atom("dB"), Atom("dA"))>>,
      <<LOr(Atom("F"), Paren(Atom("dB"))), LAnd(Atom("T"), Atom("dA"))>>,
      <<LAnd(Atom("T"), Atom("dB")), Atom("dA")>> }

CallSema_CheckConstraintSatisfaction ==
    /\ call = Idle
    /\ \E site \in CallSites, ConstraintExprs \in ClauseLists :
        LET r == Sema_CheckConstraintSatisfaction(
                     site[1], ConstraintExprs, site[2], SatisfactionCache,
                     EvalState(instDepth))
        IN  /\ call' = SatisfactionCall("Cached", site[1], ConstraintExprs,
                                        site[2], r)
            /\ instDepth' = r.st.Depth
            /\ SatisfactionCache' = r.Cache
            /\ UNCHANGED <<SubsumptionCache, returned>>

NextCached ==
    \/ EnterInstantiation
    \/ ExitInstantiation
    \/ ReturnToCaller
    \/ CallSema_CheckConstraintSatisfaction

SpecCached == InitSema /\ [][NextCached]_vars

(***************************************************************************)
(* Properties of the evaluator, checked under SpecEval on the last call.   *)
(***************************************************************************)
RECURSIVE Positions(_)
Positions(e) ==
    IF isLogical(e)
    THEN {<<>>} \cup {<<1>> \o p : p \in Positions(getLHS(e))}
                \cup {<<2>> \o p : p \in Positions(getRHS(e))}
    ELSE IF isWrapper(e)
    THEN {<<>>} \cup {<<1>> \o p : p \in Positions(getSubExpr(e))}
    ELSE {<<>>}

IsAtomicExpr(e) == ~isLogical(e) /\ ~isWrapper(e)

IsEvalCall == call.op \in {"Expr", "Nested"}
CallRoot == call.ConstraintExprs[1]
At(p) == Ptr(CallRoot, p)
CallEvaluator ==
    IF call.op = "Expr" THEN Identity
    ELSE IF call.op = "Nested"
    THEN SubstitutingWith(call.TemplateArgs, "NestedRequirement", TRUE)
    ELSE SubstitutingWith(call.TemplateArgs, "ConstraintSubstitution", FALSE)
\* The depth of the instantiation stack while the expression is evaluated.
CallInnerDepth ==
    IF call.op = "Expr" THEN call.depthBefore ELSE call.depthBefore + 1
\* The evaluation of the sub-expression E on its own, into an empty
\* ConstraintSatisfaction.
Alone(E) ==
    calculateConstraintSatisfaction(E, CallEvaluator, EvalState(CallInnerDepth))
\* The log entries of the last call that belong to atomic constraints
\* at or below E.
AtomicEventsUnder(E) ==
    {i \in DOMAIN call.Log :
        /\ call.Log[i][2] # "ConstraintsCheck"
        /\ call.Log[i][3][1] = E[1]
        /\ IsPrefix(E[2], call.Log[i][3][2])}
Visited(E) == AtomicEventsUnder(E) # {}
Unsatisfied(r) == ~r.ret /\ ~r.st.IsSatisfied
Satisfied(r) == ~r.ret /\ r.st.IsSatisfied

\* C1: for every A && B reached by the evaluation, if A evaluates to
\* unsatisfied (without a hard failure) then nothing of B is substituted or
\* constant-evaluated and A && B is unsatisfied without a hard failure.
C1_ConjunctionShortCircuits ==
    IsEvalCall =>
        \A p \in Positions(CallRoot) :
            (/\ Class(NodeAt(CallRoot, p)) = "BO_LAnd"
             /\ Visited(At(Append(p, 1)))
             /\ Unsatisfied(Alone(At(Append(p, 1)))))
            => /\ AtomicEventsUnder(At(Append(p, 2))) = {}
               /\ Unsatisfied(Alone(At(p)))
               /\ (p = <<>> => ~call.ret /\ ~call.IsSatisfied)

\* C1 witness: a substituting call on A && B whose A is unsatisfied and
\* whose B would have been substituted had it been reached.
C1_Witness ==
    /\ call.op = "Nested"
    /\ Class(CallRoot) = "BO_LAnd"
    /\ Visited(At(<<1>>))
    /\ Unsatisfied(Alone(At(<<1>>)))
    /\ Visited(At(<<>>)) /\ ~call.ret /\ ~call.IsSatisfied
    /\ Alone(At(<<2>>)).st.Log # <<>>

\* C2: for every A || B reached by the evaluation, if A is satisfied then
\* nothing of B is substituted or constant-evaluated and A || B is
\* satisfied; if A is unsatisfied then B is evaluated and the outcome of
\* A || B (failure flag and IsSatisfied) is that of B.
C2_DisjunctionShortCircuits ==
    IsEvalCall =>
        \A p \in Positions(CallRoot) :
            (/\ Class(NodeAt(CallRoot, p)) = "BO_LOr"
             /\ Visited(At(Append(p, 1))))
            => LET A == Alone(At(Append(p, 1)))
                   B == Alone(At(Append(p, 2)))
                   AB == Alone(At(p))
               IN  /\ Satisfied(A) =>
                          /\ AtomicEventsUnder(At(Append(p, 2))) = {}
                          /\ Satisfied(AB)
                          /\ (p = <<>> => ~call.ret /\ call.IsSatisfied)
                   /\ Unsatisfied(A) =>
                          /\ Visited(At(Append(p, 2)))
                          /\ AB.ret = B.ret
                          /\ AB.st.IsSatisfied = B.st.IsSatisfied
                          /\ (p = <<>> =>
                                 /\ call.ret = B.ret
                                 /\ call.IsSatisfied = B.st.IsSatisfied)

\* C2 witness: a call on A || B whose A is unsatisfied and whose B is
\* evaluated and satisfied.
C2_Witness ==
    /\ IsEvalCall
    /\ Class(CallRoot) = "BO_LOr"
    /\ Unsatisfied(Alone(At(<<1>>)))
    /\ Visited(At(<<2>>))
    /\ ~call.ret /\ call.IsSatisfied

\* The atomic constraints of the last call whose substitution was started
\* and failed with an error the SFINAE trap caught.
TrappedAtomics ==
    {p \in Positions(CallRoot) :
        /\ IsAtomicExpr(NodeAt(CallRoot, p))
        /\ \E i \in AtomicEventsUnder(At(p)) : call.Log[i][1] = "SubstExpr"
        /\ SubstExpr(NodeAt(CallRoot, p), call.TemplateArgs).trapped}

\* C3: a trapped substitution failure in an atomic makes that atomic
\* unsatisfied, records exactly one detail for it, a substitution
\* diagnostic, constant-evaluates nothing and is no hard failure.
C3_SubstitutionFailureIsUnsatisfied ==
    call.op = "Nested" =>
        \A p \in TrappedAtomics :
            LET r == Alone(At(p))
                mine == {i \in DOMAIN call.Details : call.Details[i][1] = At(p)}
            IN  /\ Unsatisfied(r)
                /\ Len(r.st.Details) = 1
                /\ Cardinality(mine) = 1
                /\ \A i \in mine : call.Details[i][2][1] = "PartialDiagnosticAt"
                /\ \A i \in AtomicEventsUnder(At(p)) :
                       call.Log[i][1] \notin {"EvaluateAsRValue",
                                              "CheckConstraintExpression"}
                /\ (p = <<>> => ~call.ret /\ ~call.IsSatisfied)

\* C3 witness: a call on a single atomic whose substitution the trap caught.
C3_Witness ==
    /\ call.op = "Nested"
    /\ TrappedAtomics = {<<>>}
    /\ ~call.ret /\ ~call.IsSatisfied /\ Len(call.Details) = 1

\* C6: after an evaluation that did not fail hard, Details is empty if and
\* only if IsSatisfied is true.
C6_DetailsEmptyIffSatisfied ==
    (IsEvalCall /\ ~call.ret) => ((call.Details = <<>>) <=> call.IsSatisfied)

(***************************************************************************)
(* Properties of the cached overload, checked under SpecCached.            *)
(***************************************************************************)
IsCachedCall == call.op = "Cached"
\* The log entries of the last call that start or carry out work, as
\* opposed to releasing a frame.
Work == {i \in DOMAIN call.Log : call.Log[i][1] # "pop"}
\* The log entry i shows a cause of hard failure: a frame that could not be
\* pushed, or an atomic constraint whose evaluation fails.
IsFailureAt(i) ==
    \/ call.Log[i][1] = "refused"
    \/ /\ call.Log[i][2] # "ConstraintsCheck"
       /\ Alone(call.Log[i][3]).ret
HardFailureOccurred == \E i \in Work : IsFailureAt(i)

\* C4: when a cached call meets a cause of hard failure (a frame that
\* cannot be pushed, a non-SFINAE substitution error, a non-bool or
\* non-constant substituted atomic) it returns the failure flag, does
\* nothing for any other atomic after the failing one, and leaves the
\* satisfaction cache with exactly the entries it had.
C4_HardFailureLeavesCacheAlone ==
    (IsCachedCall /\ HardFailureOccurred) =>
        /\ call.ret
        /\ SatisfactionCache = call.cacheBefore
        /\ \A i \in Work : IsFailureAt(i) =>
               \A j \in Work : j > i => call.Log[j][3] = call.Log[i][3]

\* C4 witness: a cached call on several clauses that failed hard in a
\* clause after the first, with an entry already in the cache.
C4_Witness ==
    /\ IsCachedCall /\ call.ret
    /\ Len(call.ConstraintExprs) = 2
    /\ \E i \in Work : IsFailureAt(i) /\ call.Log[i][3][1] = call.ConstraintExprs[2]
    /\ call.cacheBefore # <<>>
    /\ SatisfactionCache = call.cacheBefore

\* The earlier calls with the key of the last call.
EarlierSameKey ==
    {h \in returned :
        /\ h.ConstraintOwner = getCanonicalDecl(call.ConstraintOwner)
        /\ h.Innermost = getInnermost(call.TemplateArgs)}
RepeatsEarlier(earlier) ==
    /\ ~call.ret
    /\ call.Log = <<>>
    /\ instDepth = call.depthBefore
    /\ \A h \in earlier :
           h.IsSatisfied = call.IsSatisfied /\ h.Details = call.Details

Pushes == {i \in DOMAIN call.Log : call.Log[i][1] = "push"}
Pops == {i \in DOMAIN call.Log : call.Log[i][1] = "pop"}
\* The entry that releases the frame pushed at entry i.
ReleaseOf(i) ==
    {j \in Pops : j > i /\ call.Log[j][2] = call.Log[i][2]
                        /\ call.Log[j][3] = call.Log[i][3]}

\* C7: when a cached call returns, on every exit path, the instantiation
\* stack is as deep as before the call, every pushed frame has been
\* released once, and a per-atomic frame is released before the next frame
\* is pushed.
C7_FramesReleased ==
    IsCachedCall =>
        /\ instDepth = call.depthBefore
        /\ Cardinality(Pushes) = Cardinality(Pops)
        /\ \A i \in Pushes :
               /\ Cardinality(ReleaseOf(i)) = 1
               /\ call.Log[i][2] # "ConstraintsCheck" =>
                      \A j \in ReleaseOf(i) :
                          \A k \in Pushes : ~(i < k /\ k < j)

\* C7 witness: a cached call that pushed a frame for each of two atomics,
\* met a SFINAE failure and then failed hard.
C7_Witness ==
    /\ IsCachedCall /\ call.ret
    /\ Cardinality(Pushes) = 3
    /\ call.ConstraintExprs = <<LOr(Atom("dB"), Atom("dA"))>>
    /\ SubstExpr(Atom("dB"), call.TemplateArgs).trapped
    /\ instDepth = call.depthBefore

(***************************************************************************)
(* Normalized constraints, their normal forms and subsumption.             *)
(* An atomic constraint is its ConstraintExpr and its ParameterMapping; a  *)
(* compound constraint is its kind and its two operands.                   *)
(***************************************************************************)
MaxTotalLeaves == 4
MaxLeaves == 3

AtomicConstraint(E, ParameterMapping) == <<"atomic", E, ParameterMapping>>
Compound(LHS, RHS, Kind) == <<Kind, LHS, RHS>>
isAtomic(Normalized) == Normalized[1] = "atomic"
getAtomicConstraint(Normalized) == Normalized
getCompoundKind(Normalized) == Normalized[1]
ConstraintExprOf(A) == A[2]
ParameterMappingOf(A) == A[3]

Reverse(s) == [i \in 1..Len(s) |-> s[Len(s) + 1 - i]]
\* Mutant of Combine: every clause of L is combined with the first clause
\* of R only.
Combine_FirstOfR(L, R) == [k \in 1..Len(L) |-> L[k] \o R[1]]
\* The nested loops that combine every clause of L with every clause of R
Combine(L, R) ==
    [k \in 1..(Len(L) * Len(R)) |->
        L[((k - 1) \div Len(R)) + 1] \o R[((k - 1) % Len(R)) + 1]]

\* Mutant of makeCNF: the clauses of the right operand of a conjunction are
\* appended in their own order.
RECURSIVE makeCNF_KeepsROrder(_)
makeCNF_KeepsROrder(Normalized) ==
    IF isAtomic(Normalized) THEN <<<<getAtomicConstraint(Normalized)>>>>
    ELSE LET LCNF == makeCNF_KeepsROrder(getLHS(Normalized))
             RCNF == makeCNF_KeepsROrder(getRHS(Normalized))
         IN  IF getCompoundKind(Normalized) = "CCK_Conjunction"
             THEN LCNF \o RCNF
             ELSE Combine(LCNF, RCNF)

RECURSIVE makeCNF(_)
makeCNF(Normalized) ==
    IF isAtomic(Normalized) THEN <<<<getAtomicConstraint(Normalized)>>>>
    ELSE LET LCNF == makeCNF(getLHS(Normalized))
             RCNF == makeCNF(getRHS(Normalized))
         IN  IF getCompoundKind(Normalized) = "CCK_Conjunction"
             THEN LCNF \o Reverse(RCNF)
             ELSE Combine(LCNF, RCNF)

\* Mutant of makeDNF: the right operand of a conjunction is lost.
RECURSIVE makeDNF_DropsRConjunction(_)
makeDNF_DropsRConjunction(Normalized) ==
    IF isAtomic(Normalized) THEN <<<<getAtomicConstraint(Normalized)>>>>
    ELSE LET LDNF == makeDNF_DropsRConjunction(getLHS(Normalized))
             RDNF == makeDNF_DropsRConjunction(getRHS(Normalized))
         IN  IF getCompoundKind(Normalized) = "CCK_Disjunction"
             THEN LDNF \o Reverse(RDNF)
             ELSE [k \in 1..(Len(LDNF) * Len(RDNF)) |->
                      RDNF[((k - 1) % Len(RDNF)) + 1]]

RECURSIVE makeDNF(_)
makeDNF(Normalized) ==
    IF isAtomic(Normalized) THEN <<<<getAtomicConstraint(Normalized)>>>>
    ELSE LET LDNF == makeDNF(getLHS(Normalized))
             RDNF == makeDNF(getRHS(Normalized))
         IN  IF getCompoundKind(Normalized) = "CCK_Disjunction"
             THEN LDNF \o Reverse(RDNF)
             ELSE Combine(LDNF, RDNF)

\* Expr::Profile(ID, Context, /*Canonical=*/true): the atoms of the
\* concepts C and F are distinct expressions spelled T::f().
\* Profiles are compared through a representative expression.
ExprProfile(E) == IF E = Atom("F::f") THEN Atom("C::f") ELSE E

hasMatchingParameterMapping(A, B) ==
    ParameterMappingOf(A) = ParameterMappingOf(B)
\* AtomicConstraint::subsumes
AtomicConstraint_subsumes(A, B) ==
    /\ ConstraintExprOf(A) = ConstraintExprOf(B)
    /\ hasMatchingParameterMapping(A, B)

\* The leaf predicates.  Each returns its verdict and the pair of
\* expressions it has captured so far.
Verdict(holds, Ambiguous) == [holds |-> holds, Ambiguous |-> Ambiguous]
NormalExprEvaluator(A, B, Ambiguous) ==
    Verdict(AtomicConstraint_subsumes(A, B), Ambiguous)
\* Mutant of IdenticalExprEvaluator: only the same source expression is
\* identical, the profiles are not compared.
IdenticalExprEvaluator_PointerOnly(A, B, Ambiguous) ==
    IF ~hasMatchingParameterMapping(A, B) THEN Verdict(FALSE, Ambiguous)
    ELSE Verdict(ConstraintExprOf(A) = ConstraintExprOf(B), Ambiguous)
\* Mutant of IdenticalExprEvaluator: the parameter mappings are not
\* compared.
IdenticalExprEvaluator_IgnoresMapping(A, B, Ambiguous) ==
    IF ConstraintExprOf(A) = ConstraintExprOf(B) THEN Verdict(TRUE, Ambiguous)
    ELSE IF ExprProfile(ConstraintExprOf(A)) # ExprProfile(ConstraintExprOf(B))
    THEN Verdict(FALSE, Ambiguous)
    ELSE Verdict(TRUE, <<ConstraintExprOf(A), ConstraintExprOf(B)>>)
IdenticalExprEvaluator(A, B, Ambiguous) ==
    IF ~hasMatchingParameterMapping(A, B) THEN Verdict(FALSE, Ambiguous)
    ELSE IF ConstraintExprOf(A) = ConstraintExprOf(B)
    THEN Verdict(TRUE, Ambiguous)
    ELSE IF ExprProfile(ConstraintExprOf(A)) # ExprProfile(ConstraintExprOf(B))
    THEN Verdict(FALSE, Ambiguous)
    ELSE Verdict(TRUE, <<ConstraintExprOf(A), ConstraintExprOf(B)>>)
\* Any other predicate a caller instantiates subsumes with, given as the
\* relation it computes.
RelationEvaluator(Rel, A, B, Ambiguous) == Verdict(<<A, B>> \in Rel, Ambiguous)

Normal == [kind |-> "Normal", Rel |-> {}]
Identical == [kind |-> "Identical", Rel |-> {}]
Relation(Rel) == [kind |-> "Relation", Rel |-> Rel]
ApplyE(E, A, B, Ambiguous) ==
    IF E.kind = "Normal" THEN NormalExprEvaluator(A, B, Ambiguous)
    ELSE IF E.kind = "Identical" THEN IdenticalExprEvaluator(A, B, Ambiguous)
    ELSE RelationEvaluator(E.Rel, A, B, Ambiguous)

\* for (Qjb : Qj) if (E(*Pia, *Qjb)) { Found = true; break; }
RECURSIVE ForQjb(_, _, _, _, _)
ForQjb(E, Pia, Qj, b, Ambiguous) ==
    IF b > Len(Qj) THEN [Found |-> FALSE, Ambiguous |-> Ambiguous]
    ELSE LET v == ApplyE(E, Pia, Qj[b], Ambiguous)
         IN  IF v.holds THEN [Found |-> TRUE, Ambiguous |-> v.Ambiguous]
             ELSE ForQjb(E, Pia, Qj, b + 1, v.Ambiguous)

\* for (Pia : Pi) { for (Qjb : Qj) ...; if (Found) break; }
RECURSIVE ForPia(_, _, _, _, _)
ForPia(E, Pi, Qj, a, Ambiguous) ==
    IF a > Len(Pi) THEN [Found |-> FALSE, Ambiguous |-> Ambiguous]
    ELSE LET f == ForQjb(E, Pi[a], Qj, 1, Ambiguous)
         IN  IF f.Found THEN f
             ELSE ForPia(E, Pi, Qj, a + 1, f.Ambiguous)

SubsumesResult(ret, DoesSubsume, Ambiguous) ==
    [ret |-> ret, DoesSubsume |-> DoesSubsume, Ambiguous |-> Ambiguous]

\* Mutant of ForClauses: a clause pair without a match is skipped.
RECURSIVE ForClauses_IgnoresNotFound(_, _, _, _, _, _)
ForClauses_IgnoresNotFound(E, PDNF, QCNF, i, j, Ambiguous) ==
    IF i > Len(PDNF) THEN SubsumesResult(FALSE, TRUE, Ambiguous)
    ELSE IF j > Len(QCNF)
    THEN ForClauses_IgnoresNotFound(E, PDNF, QCNF, i + 1, 1, Ambiguous)
    ELSE LET f == ForPia(E, PDNF[i], QCNF[j], 1, Ambiguous)
         IN  ForClauses_IgnoresNotFound(E, PDNF, QCNF, i, j + 1, f.Ambiguous)

\* for (Pi : PDNF) for (Qj : QCNF) { ...; if (!Found) { DoesSubsume = false;
\* return false; } }  DoesSubsume = true; return false;
RECURSIVE ForClauses(_, _, _, _, _, _)
ForClauses(E, PDNF, QCNF, i, j, Ambiguous) ==
    IF i > Len(PDNF) THEN SubsumesResult(FALSE, TRUE, Ambiguous)
    ELSE IF j > Len(QCNF) THEN ForClauses(E, PDNF, QCNF, i + 1, 1, Ambiguous)
    ELSE LET f == ForPia(E, PDNF[i], QCNF[j], 1, Ambiguous)
         IN  IF ~f.Found THEN SubsumesResult(FALSE, FALSE, f.Ambiguous)
             ELSE ForClauses(E, PDNF, QCNF, i, j + 1, f.Ambiguous)

\* Mutant of subsumes: the two constraints change places.
subsumes_Swapped(PNormalized, QNormalized, E, Ambiguous) ==
    ForClauses(E, makeDNF(QNormalized), makeCNF(PNormalized), 1, 1, Ambiguous)

subsumes(PNormalized, QNormalized, E, Ambiguous) ==
    ForClauses(E, makeDNF(PNormalized), makeCNF(QNormalized), 1, 1, Ambiguous)

(***************************************************************************)
(* subsumes called on normalized constraints over a few atomic             *)
(* constraints, with each leaf predicate.                                  *)
(***************************************************************************)
Atoms ==
    { AtomicConstraint(Atom("C::f"), <<"T0">>),
      AtomicConstraint(Atom("F::f"), <<"T0">>),
      AtomicConstraint(Atom("C::f"), <<"int">>),
      AtomicConstraint(Atom("D::g"), <<"T0">>) }
CompoundKinds == {"CCK_Conjunction", "CCK_Disjunction"}

RECURSIVE NormalizedOfLeaves(_)
NormalizedOfLeaves(n) ==
    IF n = 1 THEN Atoms
    ELSE UNION { { Compound(L, R, k) : L \in NormalizedOfLeaves(i),
                                       R \in NormalizedOfLeaves(n - i),
                                       k \in CompoundKinds }
                 : i \in 1..(n - 1) }

SubsumesPairs ==
    UNION { UNION { NormalizedOfLeaves(i) \X NormalizedOfLeaves(j) :
                      j \in 1..(MaxTotalLeaves - i) } :
              i \in 1..(MaxTotalLeaves - 1) }
    \cup UNION { { <<N, N>> : N \in NormalizedOfLeaves(n) } : n \in 1..MaxLeaves }

LeafPredicates ==
    { Normal, Identical,
      Relation({ <<A, B>> \in Atoms \X Atoms :
                   ConstraintExprOf(A) = Atom("C::f")
                   /\ ConstraintExprOf(B) # Atom("C::f") }),
      Relation({ <<A, B>> \in Atoms \X Atoms :
                   ParameterMappingOf(B) = <<"int">> }) }

Callsubsumes ==
    /\ call = Idle
    /\ \E pq \in SubsumesPairs, E \in LeafPredicates :
        LET r == subsumes(pq[1], pq[2], E, <<>>)
        IN  call' = [op |-> "subsumes", P |-> pq[1], Q |-> pq[2], E |-> E,
                     ret |-> r.ret, DoesSubsume |-> r.DoesSubsume,
                     Ambiguous |-> r.Ambiguous]
    /\ UNCHANGED <<SatisfactionCache, SubsumptionCache, instDepth, returned>>

NextSubsumes == Callsubsumes \/ ReturnToCaller

SpecSubsumes == InitSema /\ [][NextSubsumes]_vars

\* The sets of atoms of the clauses of a normal form.
ClauseSets(NF) == { { NF[i][k] : k \in 1..Len(NF[i]) } : i \in 1..Len(NF) }
\* The relation a leaf predicate computes.
Holds(E, A, B) == ApplyE(E, A, B, <<>>).holds
IsSubsumesCall == call.op = "subsumes"

\* C8: subsumes(P, Q, E) reports DoesSubsume = true if and only if every
\* clause Pi of makeDNF(P) and every clause Qj of makeCNF(Q) have atoms a in
\* Pi and b in Qj with E(a, b), and it never reports a failure.
C8_SubsumesIffEveryClausePairMatches ==
    IsSubsumesCall =>
        /\ ~call.ret
        /\ call.DoesSubsume <=>
               \A Pi \in ClauseSets(makeDNF(call.P)) :
                   \A Qj \in ClauseSets(makeCNF(call.Q)) :
                       \E a \in Pi : \E b \in Qj : Holds(call.E, a, b)

\* C8 witness: a run over several clause pairs in which the pair that has
\* no match is not the first one.
C8_Witness ==
    /\ IsSubsumesCall /\ ~call.DoesSubsume
    /\ Len(makeDNF(call.P)) >= 2 /\ Len(makeCNF(call.Q)) >= 2
    /\ ForPia(call.E, makeDNF(call.P)[1], makeCNF(call.Q)[1], 1, <<>>).Found

\* C9: subsumes(N, N) yields true under the structural leaf predicate and
\* under the profile-equality leaf predicate.
C9_SubsumesIsReflexive ==
    (IsSubsumesCall /\ call.P = call.Q /\ call.E \in {Normal, Identical})
        => ~call.ret /\ call.DoesSubsume

\* C9 witness: N with a conjunction inside a disjunction, subsumed by
\* itself under the profile-equality predicate.
C9_Witness ==
    /\ IsSubsumesCall /\ call.P = call.Q /\ call.E = Identical
    /\ getCompoundKind(call.P) = "CCK_Disjunction"
    /\ getCompoundKind(getLHS(call.P)) = "CCK_Conjunction"
    /\ call.DoesSubsume

(***************************************************************************)
(* The normalizer.  A concept specialization C<A1..An> written at a place  *)
(* Site is <<"ConceptSpecializationExpr", C, <<A1..An>>, Site>>.  Template *)
(* arguments are "T0" and "T1" (the template parameter of depth 0 and 1),  *)
(* "T0::type", the pack expansion "Ts...", and the types "int" and "S", of *)
(* which only S has a member named type.                                   *)
(***************************************************************************)
CSE(NamedConcept, Args, Site) ==
    <<"ConceptSpecializationExpr", NamedConcept, Args, Site>>
isCSE(E) == Class(E) = "ConceptSpecializationExpr"
getNamedConcept(E) == E[2]
getTemplateArgsAsWritten(E) == E[3]

\* template<typename T1, typename T2> concept C1 = true;
\* template<typename T, typename U> concept C2 = C1<U, T>;
\* T0 and U0 stand for the first and the second parameter of the template
\* an expression is written in.
ExampleConcepts ==
    [c \in {"C1", "C2"} |->
        IF c = "C1" THEN Atom("C1::true") ELSE CSE("C1", <<"U0", "T0">>, "C2")]

\* ConceptDecl::getConstraintExpr, for the concepts of temp.arg.template/p3
getConstraintExpr(NamedConcept) ==
    IF NamedConcept \in DOMAIN ExampleConcepts THEN ExampleConcepts[NamedConcept]
    ELSE IF NamedConcept = "C" THEN Atom("C::f")
    ELSE IF NamedConcept = "D"
    THEN LAnd(CSE("C", <<"T0">>, "D"), Atom("D::g"))
    ELSE Atom("F::f")

None == <<"None">>
InvalidArg == "<invalid>"

\* Substitution of a multilevel argument list into one template argument
SubstArg(Arg, MLTAL) ==
    LET L == getNumLevels(MLTAL)
    IN  IF L = 0 THEN Arg
        ELSE IF Arg = "T0" THEN MLTAL[1][1]
        ELSE IF Arg = "U0"
        THEN (IF Len(MLTAL[1]) >= 2 THEN MLTAL[1][2] ELSE InvalidArg)
        ELSE IF Arg = "T1" THEN (IF L >= 2 THEN MLTAL[2][1] ELSE "T0")
        ELSE IF Arg = "T0::type"
        THEN (IF MLTAL[1][1] = "S" THEN "S::type"
              ELSE IF MLTAL[1][1] = "int" THEN InvalidArg
              ELSE "T0::type")
        ELSE Arg

\* S.SubstExpr(CSE, ParameterMapping)
SubstCSE(E, MLTAL) ==
    LET args == [i \in 1..Len(getTemplateArgsAsWritten(E)) |->
                    SubstArg(getTemplateArgsAsWritten(E)[i], MLTAL)]
    IN  IF \E i \in 1..Len(args) : args[i] = InvalidArg
        THEN SubstResult(TRUE, FALSE, E)
        ELSE SubstResult(FALSE, FALSE,
                         CSE(getNamedConcept(E), args, E[4]))

\* S.CheckTemplateArgumentList(...): the converted arguments, and whether
\* they cannot yet be matched to the parameters.
CheckTemplateArgumentList(Args) ==
    [Converted |-> Args,
     InstantiationDependent |-> \E i \in 1..Len(Args) : Args[i] = "Ts..."]

Normalization(N, st) == [N |-> N, st |-> st]

\* if (ParameterMapping.getNumLevels() != 0) Inst.emplace(...): the frame is
\* not asked whether it is valid.
EmplaceInst(E, ParameterMapping, st) ==
    IF getNumLevels(ParameterMapping) = 0 THEN st
    ELSE IF InstIsInvalid(st)
    THEN EmitError(RefusedFrame(st, "ConstraintNormalization", E))
    ELSE PushFrame(st, "ConstraintNormalization", E)
ResetInst(E, ParameterMapping, before, st) ==
    IF getNumLevels(ParameterMapping) = 0 \/ InstIsInvalid(before) THEN st
    ELSE PopFrame(st, "ConstraintNormalization", E)

\* return NormalizedConstraint(S.Context, *LHS, *RHS, Kind)
CompoundOf(n, LHS, RHS) ==
    IF RHS.N = None THEN RHS
    ELSE Normalization(Compound(LHS.N, RHS.N,
                                IF Class(n) = "BO_LAnd" THEN "CCK_Conjunction"
                                ELSE "CCK_Disjunction"),
                       RHS.st)
\* What leaves the function: the frame Inst, if any, is released.
Leave(E, ParameterMapping, before, r) ==
    Normalization(r.N, ResetInst(E, ParameterMapping, before, r.st))

\* Mutant of AfterSubst: every concept specialization is treated as an
\* atomic expression.
AfterSubst_AlwaysAtomic(E, ParameterMapping, st, s1, Result, chk) ==
    IF Result.invalid THEN Leave(E, ParameterMapping, st, Normalization(None, s1))
    ELSE Leave(E, ParameterMapping, st,
               Normalization(AtomicConstraint(Node(E), chk.Converted), s1))

RECURSIVE fromConstraintExpr(_, _, _)
RECURSIVE AfterLHS(_, _, _)
RECURSIVE AfterSubst(_, _, _, _, _, _)

\* Mutant of AfterSubst: the concept's constraint expression is normalized
\* under the mapping the specialization was met with.
AfterSubst_KeepsMapping(E, ParameterMapping, st, s1, Result, chk) ==
    IF Result.invalid THEN Leave(E, ParameterMapping, st, Normalization(None, s1))
    ELSE IF chk.InstantiationDependent
    THEN Leave(E, ParameterMapping, st,
               Normalization(AtomicConstraint(Node(E), chk.Converted), s1))
    ELSE Leave(E, ParameterMapping, st,
               fromConstraintExpr(
                   Ptr(getConstraintExpr(getNamedConcept(Node(E))), <<>>),
                   ParameterMapping, s1))

\* The concept specialization case after S.SubstExpr
AfterSubst(E, ParameterMapping, st, s1, Result, chk) ==
    IF Result.invalid THEN Leave(E, ParameterMapping, st, Normalization(None, s1))
    ELSE IF chk.InstantiationDependent
    THEN Leave(E, ParameterMapping, st,
               Normalization(AtomicConstraint(Node(E), chk.Converted), s1))
    ELSE Leave(E, ParameterMapping, st,
               fromConstraintExpr(
                   Ptr(getConstraintExpr(getNamedConcept(Node(E))), <<>>),
                   <<chk.Converted>>, s1))

\* The && / || case after the LHS
AfterLHS(E, ParameterMapping, LHS) ==
    IF LHS.N = None THEN LHS
    ELSE CompoundOf(Node(E), LHS,
                    fromConstraintExpr(Child(E, 2), ParameterMapping, LHS.st))

fromConstraintExpr(E, ParameterMapping, st) ==
    IF Class(Node(E)) = "ParenExpr"
    THEN fromConstraintExpr(Child(E, 1), ParameterMapping, st)
    ELSE IF isLogical(Node(E))
    THEN AfterLHS(E, ParameterMapping,
                  fromConstraintExpr(Child(E, 1), ParameterMapping, st))
    ELSE IF isCSE(Node(E))
    THEN AfterSubst(E, ParameterMapping, st,
                    EmplaceInst(E, ParameterMapping, st),
                    SubstCSE(Node(E), ParameterMapping),
                    CheckTemplateArgumentList(getTemplateArgsAsWritten(
                        SubstCSE(Node(E), ParameterMapping).expr)))
    ELSE Normalization(
             AtomicConstraint(Node(E),
                              IF getNumLevels(ParameterMapping) # 0
                              THEN getInnermost(ParameterMapping)
                              ELSE <<>>),
             st)

\* What reading *First yields when First holds no value: the read is
\* undefined, so the build may stop there or go on with whatever the
\* storage holds.
Crash == <<"Crash">>
Indeterminate ==
    { Crash,
      AtomicConstraint(Atom("<indeterminate>"), <<>>),
      AtomicConstraint(Atom("C::f"), <<"T0">>) }
Deref(Opt, ub) == IF Opt = None THEN ub ELSE Opt

\* for (unsigned I = 2; I < E.size(); ++I) ...
RECURSIVE FoldClauses(_, _, _, _, _)
RECURSIVE AfterNext(_, _, _, _, _)
AfterNext(E, I, ParameterMapping, Conjunction, Next) ==
    IF Next.N = None THEN Next
    ELSE FoldClauses(E, I + 1, ParameterMapping,
                     Compound(Conjunction, Next.N, "CCK_Conjunction"), Next.st)
FoldClauses(E, I, ParameterMapping, Conjunction, st) ==
    IF I > Len(E) THEN Normalization(Conjunction, st)
    ELSE AfterNext(E, I, ParameterMapping, Conjunction,
                   fromConstraintExpr(Ptr(E[I], <<>>), ParameterMapping, st))

\* Conjunction.emplace(S.Context, *First, *Second, CCK_Conjunction) and on
AfterSecond(E, ParameterMapping, FirstN, Second) ==
    IF Second.N = None THEN Second
    ELSE IF FirstN = Crash THEN Normalization(Crash, Second.st)
    ELSE FoldClauses(E, 3, ParameterMapping,
                     Compound(FirstN, Second.N, "CCK_Conjunction"), Second.st)

AfterFirst(E, ParameterMapping, First, ub) ==
    IF Len(E) = 1 THEN First
    ELSE AfterSecond(E, ParameterMapping, Deref(First.N, ub),
                     fromConstraintExpr(Ptr(E[2], <<>>), ParameterMapping,
                                        First.st))

fromConstraintExprs(E, ParameterMapping, st, ub) ==
    AfterFirst(E, ParameterMapping,
               fromConstraintExpr(
                   Ptr(E[1], <<>>), ParameterMapping,
                   Logged(st, "fromConstraintExprs", "", Ptr(E[1], <<>>))),
               ub)

(***************************************************************************)
(* Sema::IsAtLeastAsConstrained.  Invalid is the caller's variable behind  *)
(* the pointer, when one is passed.                                        *)
(***************************************************************************)
Ordering(ret, Invalid, crashed, st) ==
    [ret |-> ret, Invalid |-> Invalid, crashed |-> crashed, st |-> st]

\* if (subsumes(...)) { *Invalid = true; return false; } return Subsumes;
AfterSubsumes(r, st) ==
    IF r.ret THEN Ordering(FALSE, TRUE, FALSE, st)
    ELSE Ordering(r.DoesSubsume, FALSE, FALSE, st)

AfterNormalized2(N1, Normalized2) ==
    IF Normalized2.N = Crash THEN Ordering(FALSE, FALSE, TRUE, Normalized2.st)
    ELSE IF Normalized2.N = None
    THEN Ordering(FALSE, TRUE, FALSE, Normalized2.st)
    ELSE AfterSubsumes(subsumes(N1, Normalized2.N, Normal, <<>>),
                       Normalized2.st)

AfterNormalized1(Normalized1, AC2, MLTAL2, ub) ==
    IF Normalized1.N = Crash THEN Ordering(FALSE, FALSE, TRUE, Normalized1.st)
    ELSE IF Normalized1.N = None
    THEN Ordering(FALSE, TRUE, FALSE, Normalized1.st)
    ELSE AfterNormalized2(Normalized1.N,
                          fromConstraintExprs(AC2, MLTAL2, Normalized1.st, ub))

\* The overload that takes the template argument lists
IsAtLeastAsConstrained_MLTAL(AC1, MLTAL1, AC2, MLTAL2, st, ub) ==
    IF AC1 = <<>> THEN Ordering(AC2 = <<>>, FALSE, FALSE, st)
    ELSE IF AC2 = <<>> THEN Ordering(TRUE, FALSE, FALSE, st)
    ELSE AfterNormalized1(fromConstraintExprs(AC1, MLTAL1, st, ub),
                          AC2, MLTAL2, ub)

\* The declarations of temp.arg.template/p3: P1 is the parameter of S1, P2
\* that of S2.  M, N and R are member templates of S<int>, S<int> and S<S>;
\* V has a parameter pack.
Decls == {"P1", "P2", "X", "Y", "Z", "W", "M", "N", "R", "V"}
getAssociatedConstraints(D) ==
    CASE D \in {"P1", "X"} -> <<CSE("C", <<"T0">>, D)>>
      [] D = "Y" -> <<CSE("D", <<"T0">>, D)>>
      [] D = "W" -> <<CSE("F", <<"T0">>, D)>>
      [] D = "M" -> <<Atom("M::b"), CSE("C", <<"T0::type">>, D)>>
      [] D = "N" -> <<CSE("C", <<"T0::type">>, D), Atom("N::b")>>
      [] D = "R" -> <<LOr(Paren(CSE("C", <<"T0::type">>, D)), Atom("D::g")),
                      Atom("R::b"), CSE("D", <<"T1">>, D)>>
      [] D = "V" -> <<CSE("C", <<"Ts...">>, D)>>
      [] OTHER -> <<>>
\* getTemplateInstantiationArgs(cast<Decl>(D->getDeclContext()))
getTemplateInstantiationArgs(D) ==
    CASE D \in {"M", "N"} -> <<<<"int">>>>
      [] D = "R" -> <<<<"S">>>>
      [] OTHER -> <<>>

\* SubsumptionCache.try_emplace(Key, Subsumes); return Subsumes;
TryEmplace(Cache, Key, o) ==
    [o |-> o,
     Cache |-> IF o.crashed THEN Cache ELSE InsertNode(Cache, Key, o.ret)]

\* Mutant of Sema_IsAtLeastAsConstrained: an unconstrained D1 is taken to
\* be at least as constrained as anything.
Sema_IsAtLeastAsConstrained_EmptyIsTrue(D1, AC1, D2, AC2, Cache, st, ub) ==
    IF AC1 = <<>> \/ AC2 = <<>>
    THEN [o |-> Ordering(TRUE, FALSE, FALSE, st), Cache |-> Cache]
    ELSE IF <<D1, D2>> \in DOMAIN Cache
    THEN [o |-> Ordering(Cache[<<D1, D2>>], FALSE, FALSE, st), Cache |-> Cache]
    ELSE TryEmplace(Cache, <<D1, D2>>,
                    IsAtLeastAsConstrained_MLTAL(
                        AC1, getTemplateInstantiationArgs(D1),
                        AC2, getTemplateInstantiationArgs(D2), st, ub))

\* The overload that consults the subsumption cache
Sema_IsAtLeastAsConstrained(D1, AC1, D2, AC2, Cache, st, ub) ==
    IF AC1 = <<>> THEN [o |-> Ordering(AC2 = <<>>, FALSE, FALSE, st),
                        Cache |-> Cache]
    ELSE IF AC2 = <<>> THEN [o |-> Ordering(TRUE, FALSE, FALSE, st),
                             Cache |-> Cache]
    ELSE IF <<D1, D2>> \in DOMAIN Cache
    THEN [o |-> Ordering(Cache[<<D1, D2>>], FALSE, FALSE, st), Cache |-> Cache]
    ELSE TryEmplace(Cache, <<D1, D2>>,
                    IsAtLeastAsConstrained_MLTAL(
                        AC1, getTemplateInstantiationArgs(D1),
                        AC2, getTemplateInstantiationArgs(D2), st, ub))

OrderingCalls ==
    { <<"P1", "X">>, <<"P1", "Y">>, <<"Y", "P1">>, <<"P1", "W">>,
      <<"W", "P1">>, <<"P1", "Z">>, <<"P2", "X">>, <<"P2", "Z">>,
      <<"M", "X">>, <<"X", "M">>, <<"N", "X">>, <<"R", "V">> }

\* The outcomes of the undefined read a call can meet, if it meets one.
OutcomesFor(d, Cache, depth) ==
    IF Sema_IsAtLeastAsConstrained(
           d[1], getAssociatedConstraints(d[1]),
           d[2], getAssociatedConstraints(d[2]),
           Cache, EvalState(depth), Crash).o.crashed
    THEN Indeterminate ELSE {Crash}

OrderingCall(d, hasInvalid, r) ==
    [op |-> "IsAtLeastAsConstrained", D1 |-> d[1], D2 |-> d[2],
     AC1 |-> getAssociatedConstraints(d[1]),
     AC2 |-> getAssociatedConstraints(d[2]),
     hasInvalid |-> hasInvalid,
     depthBefore |-> instDepth, cacheBefore |-> SubsumptionCache,
     ret |-> r.o.ret, Invalid |-> r.o.Invalid, crashed |-> r.o.crashed,
     depthAfter |-> r.o.st.Depth, cacheAfter |-> r.Cache, Log |-> r.o.st.Log]

CallSema_IsAtLeastAsConstrained ==
    /\ call = Idle
    /\ \E d \in OrderingCalls, hasInvalid \in BOOLEAN :
        \E ub \in OutcomesFor(d, SubsumptionCache, instDepth) :
           call' = OrderingCall(
                       d, hasInvalid,
                       Sema_IsAtLeastAsConstrained(
                           d[1], getAssociatedConstraints(d[1]),
                           d[2], getAssociatedConstraints(d[2]),
                           SubsumptionCache, EvalState(instDepth), ub))
    /\ instDepth' = call'.depthAfter
    /\ SubsumptionCache' = call'.cacheAfter
    /\ UNCHANGED <<SatisfactionCache, returned>>

NextOrder ==
    \/ EnterInstantiation
    \/ ExitInstantiation
    \/ ReturnToCaller
    \/ CallSema_IsAtLeastAsConstrained

SpecOrder == InitSema /\ [][NextOrder]_vars

IsOrderingCall == call.op = "IsAtLeastAsConstrained"

OrderArgLists == {<<>>, <<<<"int">>>>, <<<<"S">>>>}

OrderingCall_MLTAL(d, MLTAL1, MLTAL2, hasInvalid, o) ==
    [op |-> "IsAtLeastAsConstrained_MLTAL", D1 |-> d[1], D2 |-> d[2],
     AC1 |-> getAssociatedConstraints(d[1]), MLTAL1 |-> MLTAL1,
     AC2 |-> getAssociatedConstraints(d[2]), MLTAL2 |-> MLTAL2,
     hasInvalid |-> hasInvalid, depthBefore |-> instDepth,
     ret |-> o.ret, Invalid |-> o.Invalid, crashed |-> o.crashed,
     depthAfter |-> o.st.Depth, Log |-> o.st.Log]

\* The outcomes of the undefined read this call can meet, if it meets one.
OutcomesFor_MLTAL(d, MLTAL1, MLTAL2, depth) ==
    IF IsAtLeastAsConstrained_MLTAL(
           getAssociatedConstraints(d[1]), MLTAL1,
           getAssociatedConstraints(d[2]), MLTAL2,
           EvalState(depth), Crash).crashed
    THEN Indeterminate ELSE {Crash}

CallIsAtLeastAsConstrained_MLTAL ==
    /\ call = Idle
    /\ \E d \in Decls \X Decls, MLTAL1 \in OrderArgLists,
          MLTAL2 \in OrderArgLists, hasInvalid \in BOOLEAN :
        \E ub \in OutcomesFor_MLTAL(d, MLTAL1, MLTAL2, instDepth) :
           call' = OrderingCall_MLTAL(
                       d, MLTAL1, MLTAL2, hasInvalid,
                       IsAtLeastAsConstrained_MLTAL(
                           getAssociatedConstraints(d[1]), MLTAL1,
                           getAssociatedConstraints(d[2]), MLTAL2,
                           EvalState(instDepth), ub))
    /\ instDepth' = call'.depthAfter
    /\ UNCHANGED <<SatisfactionCache, SubsumptionCache, returned>>

(***************************************************************************)
(* Sema::MaybeEmitAmbiguousAtomicConstraintsDiagnostic.  Notes is the      *)
(* sequence of expressions a note was emitted at.                          *)
(***************************************************************************)
Emitted(ret, Notes, crashed, st) ==
    [ret |-> ret, Notes |-> Notes, crashed |-> crashed, st |-> st]

\* assert(AmbiguousAtomic1 && AmbiguousAtomic2); Diag(...); Diag(...);
EmitNotes(Ambiguous, st) ==
    IF Ambiguous = <<>> THEN Emitted(FALSE, <<>>, TRUE, st)
    ELSE Emitted(TRUE, <<Ambiguous[1], Ambiguous[2]>>, FALSE, st)

\* Mutant of AfterIs2AtLeastAs1: the notes are emitted at what the last
\* structural run captured.
AfterIs2AtLeastAs1_NormalCaptures(Normally12, Normally21, Is12, Is21, st) ==
    IF Is21.ret THEN Emitted(FALSE, <<>>, FALSE, st)
    ELSE IF /\ Is12.DoesSubsume = Normally12.DoesSubsume
            /\ Is21.DoesSubsume = Normally21.DoesSubsume
    THEN Emitted(FALSE, <<>>, FALSE, st)
    ELSE EmitNotes(Normally21.Ambiguous, st)
AfterIs2AtLeastAs1(Normally12, Normally21, Is12, Is21, st) ==
    IF Is21.ret THEN Emitted(FALSE, <<>>, FALSE, st)
    ELSE IF /\ Is12.DoesSubsume = Normally12.DoesSubsume
            /\ Is21.DoesSubsume = Normally21.DoesSubsume
    THEN Emitted(FALSE, <<>>, FALSE, st)
    ELSE EmitNotes(Is21.Ambiguous, st)

AfterIs1AtLeastAs2(N1, N2, Normally12, Normally21, Is12, st) ==
    IF Is12.ret THEN Emitted(FALSE, <<>>, FALSE, st)
    ELSE AfterIs2AtLeastAs1(Normally12, Normally21, Is12,
                            subsumes(N2, N1, Identical, Is12.Ambiguous), st)

AfterNormally(N1, N2, Normally12, Normally21, st) ==
    IF Normally12.ret \/ Normally21.ret THEN Emitted(FALSE, <<>>, FALSE, st)
    ELSE AfterIs1AtLeastAs2(N1, N2, Normally12, Normally21,
                            subsumes(N1, N2, Identical, <<>>), st)

DiagnoseNormalized2(N1, Normalized2) ==
    IF Normalized2.N = Crash THEN Emitted(FALSE, <<>>, TRUE, Normalized2.st)
    ELSE IF Normalized2.N = None
    THEN Emitted(FALSE, <<>>, FALSE, Normalized2.st)
    ELSE AfterNormally(N1, Normalized2.N,
                       subsumes(N1, Normalized2.N, Normal, <<>>),
                       subsumes(Normalized2.N, N1, Normal, <<>>),
                       Normalized2.st)

DiagnoseNormalized1(Normalized1, AC2, MLTAL2, ub) ==
    IF Normalized1.N = Crash THEN Emitted(FALSE, <<>>, TRUE, Normalized1.st)
    ELSE IF Normalized1.N = None
    THEN Emitted(FALSE, <<>>, FALSE, Normalized1.st)
    ELSE DiagnoseNormalized2(Normalized1.N,
                             fromConstraintExprs(AC2, MLTAL2, Normalized1.st,
                                                 ub))

MaybeEmitAmbiguousAtomicConstraintsDiagnostic(AC1, MLTAL1, AC2, MLTAL2, st, ub) ==
    IF AC1 = <<>> \/ AC2 = <<>> THEN Emitted(FALSE, <<>>, FALSE, st)
    ELSE DiagnoseNormalized1(fromConstraintExprs(AC1, MLTAL1, st, ub),
                             AC2, MLTAL2, ub)

DiagnosticCall(d, MLTAL1, MLTAL2, o) ==
    [op |-> "MaybeEmitAmbiguousAtomicConstraintsDiagnostic",
     D1 |-> d[1], D2 |-> d[2],
     AC1 |-> getAssociatedConstraints(d[1]), MLTAL1 |-> MLTAL1,
     AC2 |-> getAssociatedConstraints(d[2]), MLTAL2 |-> MLTAL2,
     depthBefore |-> instDepth,
     ret |-> o.ret, Notes |-> o.Notes, crashed |-> o.crashed,
     depthAfter |-> o.st.Depth, Log |-> o.st.Log]

\* The outcomes of the undefined read this call can meet, if it meets one.
OutcomesFor_Diagnostic(d, MLTAL1, MLTAL2, depth) ==
    IF MaybeEmitAmbiguousAtomicConstraintsDiagnostic(
           getAssociatedConstraints(d[1]), MLTAL1,
           getAssociatedConstraints(d[2]), MLTAL2,
           EvalState(depth), Crash).crashed
    THEN Indeterminate ELSE {Crash}

CallMaybeEmitAmbiguousAtomicConstraintsDiagnostic ==
    /\ call = Idle
    /\ \E d \in Decls \X Decls, MLTAL1 \in OrderArgLists,
          MLTAL2 \in OrderArgLists :
        \E ub \in OutcomesFor_Diagnostic(d, MLTAL1, MLTAL2, instDepth) :
           call' = DiagnosticCall(
                       d, MLTAL1, MLTAL2,
                       MaybeEmitAmbiguousAtomicConstraintsDiagnostic(
                           getAssociatedConstraints(d[1]), MLTAL1,
                           getAssociatedConstraints(d[2]), MLTAL2,
                           EvalState(instDepth), ub))
    /\ instDepth' = call'.depthAfter
    /\ UNCHANGED <<SatisfactionCache, SubsumptionCache, returned>>

NextOrderArgs ==
    \/ EnterInstantiation
    \/ ExitInstantiation
    \/ ReturnToCaller
    \/ CallIsAtLeastAsConstrained_MLTAL
    \/ CallMaybeEmitAmbiguousAtomicConstraintsDiagnostic

SpecOrderArgs == InitSema /\ [][NextOrderArgs]_vars

IsMLTALCall == call.op = "IsAtLeastAsConstrained_MLTAL"

\* Normalizing one clause of a list on its own fails
ClauseFails(E, MLTAL) ==
    fromConstraintExpr(Ptr(E, <<>>), MLTAL, EvalState(0)).N = None
HardFailureIn(AC, MLTAL) == \E i \in 1..Len(AC) : ClauseFails(AC[i], MLTAL)

\* The conjunction of the clauses' normal forms, folded from the left
RECURSIVE ConjunctionOfClauses(_, _, _)
ConjunctionOfClauses(AC, MLTAL, n) ==
    IF n = 1
    THEN fromConstraintExpr(Ptr(AC[1], <<>>), MLTAL, EvalState(0)).N
    ELSE Compound(ConjunctionOfClauses(AC, MLTAL, n - 1),
                  fromConstraintExpr(Ptr(AC[n], <<>>), MLTAL, EvalState(0)).N,
                  "CCK_Conjunction")

\* C11: with both constraint lists non-empty, IsAtLeastAsConstrained
\* returns; if normalizing either side fails it returns false with *Invalid
\* set to true, and if both sides normalize *Invalid is false and the
\* return value is the subsumption result under the structural leaf
\* predicate: a hard failure is never reported as a plain result.
C11_HardFailureIsNeverPlain ==
    (IsMLTALCall /\ call.AC1 # <<>> /\ call.AC2 # <<>>) =>
        /\ ~call.crashed
        /\ (HardFailureIn(call.AC1, call.MLTAL1)
               \/ HardFailureIn(call.AC2, call.MLTAL2)) =>
              (~call.ret /\ (call.hasInvalid => call.Invalid))
        /\ (~HardFailureIn(call.AC1, call.MLTAL1)
               /\ ~HardFailureIn(call.AC2, call.MLTAL2)) =>
              /\ call.hasInvalid => ~call.Invalid
              /\ call.ret =
                   subsumes(ConjunctionOfClauses(call.AC1, call.MLTAL1,
                                                 Len(call.AC1)),
                            ConjunctionOfClauses(call.AC2, call.MLTAL2,
                                                 Len(call.AC2)),
                            Normal, <<>>).DoesSubsume

IsDiagnosticCall == call.op = "MaybeEmitAmbiguousAtomicConstraintsDiagnostic"

\* The normal form of a side of the call in hand
Side1 == ConjunctionOfClauses(call.AC1, call.MLTAL1, Len(call.AC1))
Side2 == ConjunctionOfClauses(call.AC2, call.MLTAL2, Len(call.AC2))

\* Both sides of the call in hand normalize to one atom each, the two atoms
\* being distinct expressions with equal profiles and matching mappings.
SimilarAtoms ==
    /\ call.AC1 # <<>> /\ call.AC2 # <<>>
    /\ ~HardFailureIn(call.AC1, call.MLTAL1)
    /\ ~HardFailureIn(call.AC2, call.MLTAL2)
    /\ isAtomic(Side1) /\ isAtomic(Side2)
    /\ ConstraintExprOf(Side1) # ConstraintExprOf(Side2)
    /\ ExprProfile(ConstraintExprOf(Side1)) = ExprProfile(ConstraintExprOf(Side2))
    /\ hasMatchingParameterMapping(Side1, Side2)

\* C12: for two declarations whose constraints normalize to atoms that are
\* distinct expressions with equal profiles and matching parameter
\* mappings, IsAtLeastAsConstrained is false (in either direction) without
\* being invalid, and MaybeEmitAmbiguousAtomicConstraintsDiagnostic returns
\* true and emits exactly two notes, one at each of the two atoms.
C12_SimilarAtomsAreAmbiguous ==
    /\ (IsMLTALCall /\ SimilarAtoms) =>
          (~call.crashed /\ ~call.ret /\ ~call.Invalid)
    /\ (IsDiagnosticCall /\ SimilarAtoms) =>
          /\ ~call.crashed /\ call.ret
          /\ Len(call.Notes) = 2
          /\ call.Notes[1] # call.Notes[2]
          /\ {call.Notes[1], call.Notes[2]} =
                 {ConstraintExprOf(Side1), ConstraintExprOf(Side2)}

\* C12 witness: the parameter of S1 (constrained by C) against W
\* (constrained by F), diagnosed with the first note at F's T::f() and the
\* second at C's.
C12_Witness ==
    /\ IsDiagnosticCall /\ SimilarAtoms
    /\ call.D1 = "P1" /\ call.D2 = "W"
    /\ call.MLTAL1 = <<>> /\ call.MLTAL2 = <<>>
    /\ call.ret /\ call.Notes = <<Atom("F::f"), Atom("C::f")>>

(***************************************************************************)
(* Sema::CheckConstraintExpression called on constraint expressions over   *)
(* a bool constant, an int constant and a type-dependent expression.       *)
(***************************************************************************)
CheckedLeaves == {"T", "I", "dA"}
CheckedExprs == UNION {ExprsOfSize(CheckedLeaves, n) : n \in 1..MaxExprSize}

CallCheckConstraintExpression ==
    /\ call = Idle
    /\ \E e \in CheckedExprs, hasCulprit \in BOOLEAN :
         call' = [op |-> "CheckConstraintExpression", ConstraintExpression |-> e,
                  hasCulprit |-> hasCulprit,
                  r |-> CheckConstraintExpression(Ptr(e, <<>>), hasCulprit)]
    /\ UNCHANGED <<SatisfactionCache, SubsumptionCache, instDepth, returned>>

NextCheck ==
    \/ EnterInstantiation
    \/ ExitInstantiation
    \/ ReturnToCaller
    \/ CallCheckConstraintExpression

SpecCheck == InitSema /\ [][NextCheck]_vars

IsCheckCall == call.op = "CheckConstraintExpression"

\* The positions of the atomics of e when e is decomposed through && and ||
RECURSIVE AtomicPositions(_)
AtomicPositions(e) ==
    IF isLogical(e)
    THEN {<<1>> \o p : p \in AtomicPositions(getLHS(e))}
         \cup {<<2>> \o p : p \in AtomicPositions(getRHS(e))}
    ELSE {<<>>}

\* The atomic at position p is neither type-dependent nor of type bool
NonBoolAt(e, p) ==
    /\ ~isTypeDependent(NodeAt(e, p))
    /\ getType(NodeAt(e, p)) # "bool"
NonBoolPositions(e) == {p \in AtomicPositions(e) : NonBoolAt(e, p)}

\* Position p is to the left of position q (neither is above the other)
RECURSIVE LeftOf(_, _)
LeftOf(p, q) ==
    /\ p # <<>> /\ q # <<>>
    /\ \/ p[1] < q[1]
       \/ p[1] = q[1] /\ LeftOf(Tail(p), Tail(q))

\* C13: CheckConstraintExpression returns true iff every atomic of the
\* &&/|| decomposition is type-dependent or has type bool; otherwise it
\* returns false and emits exactly one error, at the leftmost atomic that is
\* neither, and checks no atomic to the right of that one.
C13_OneErrorAtLeftmostNonBool ==
    IsCheckCall =>
        /\ call.r.ok <=> NonBoolPositions(call.ConstraintExpression) = {}
        /\ call.r.ok => call.r.Diags = <<>>
        /\ ~call.r.ok =>
             /\ Len(call.r.Diags) = 1
             /\ call.r.Diags[1][1] = call.ConstraintExpression
             /\ call.r.Diags[1][2] \in NonBoolPositions(call.ConstraintExpression)
             /\ \A p \in NonBoolPositions(call.ConstraintExpression) :
                    ~LeftOf(p, call.r.Diags[1][2])
             /\ \A i \in 1..Len(call.r.Checked) :
                    ~LeftOf(call.r.Diags[1][2], call.r.Checked[i][2])

\* C13 witness: (dA && I) || I, refused with one error at the first int
\* operand while a second one stands to its right.
C13_Witness ==
    /\ IsCheckCall
    /\ call.ConstraintExpression =
           LOr(LAnd(Atom("dA"), Atom("I")), Atom("I"))
    /\ ~call.r.ok
    /\ call.r.Diags = <<Ptr(call.ConstraintExpression, <<1, 2>>)>>
    /\ Cardinality(NonBoolPositions(call.ConstraintExpression)) = 2

(***************************************************************************)
(* The normalizer called on its own: fromConstraintExpr on expressions     *)
(* over an atomic expression and concept specializations, and              *)
(* fromConstraintExprs on lists of the leaves, under each parameter        *)
(* mapping of NormalizerMappings.                                          *)
(***************************************************************************)
MaxNormSize == 4
MaxClauses == 3

NormalizerLeaves ==
    { Atom("a"), CSE("C", <<"T0">>, "E"), CSE("C", <<"T0::type">>, "E"),
      CSE("D", <<"T0">>, "E"), CSE("C", <<"Ts...">>, "E"),
      CSE("C2", <<"T0", "U0">>, "E") }

RECURSIVE NormalizerExprsOfSize(_)
NormalizerExprsOfSize(n) ==
    IF n = 1 THEN NormalizerLeaves
    ELSE {Paren(e) : e \in NormalizerExprsOfSize(n - 1)}
         \cup {Cleanups(e) : e \in NormalizerExprsOfSize(n - 1)}
         \cup UNION { {LAnd(l, r) : l \in NormalizerExprsOfSize(i),
                                    r \in NormalizerExprsOfSize(n - 1 - i)}
                      \cup {LOr(l, r) : l \in NormalizerExprsOfSize(i),
                                        r \in NormalizerExprsOfSize(n - 1 - i)}
                    : i \in 1..(n - 2) }
NormalizerExprs == UNION {NormalizerExprsOfSize(n) : n \in 1..MaxNormSize}

NormalizerMappings ==
    {<<>>, <<<<"int">>>>, <<<<"S">>>>, <<<<"S">>, <<"int">>>>, <<<<"X", "Y">>>>}

RECURSIVE ClauseListsOfLen(_)
ClauseListsOfLen(n) ==
    IF n = 0 THEN {<<>>}
    ELSE {Append(l, e) : l \in ClauseListsOfLen(n - 1), e \in NormalizerLeaves}
NormalizerClauseLists == UNION {ClauseListsOfLen(n) : n \in 1..MaxClauses}

NormalizerCall(op, E, ParameterMapping, r) ==
    [op |-> op, E |-> E, ParameterMapping |-> ParameterMapping,
     depthBefore |-> instDepth, N |-> r.N, crashed |-> r.N = Crash,
     depthAfter |-> r.st.Depth, Log |-> r.st.Log]

CallfromConstraintExpr ==
    /\ call = Idle
    /\ \E E \in NormalizerExprs, ParameterMapping \in NormalizerMappings :
         call' = NormalizerCall("fromConstraintExpr", E, ParameterMapping,
                                fromConstraintExpr(Ptr(E, <<>>), ParameterMapping,
                                                   EvalState(instDepth)))
    /\ instDepth' = call'.depthAfter
    /\ UNCHANGED <<SatisfactionCache, SubsumptionCache, returned>>

\* The outcomes of the undefined read a call can meet, if it meets one.
OutcomesFor_Exprs(E, ParameterMapping, depth) ==
    IF fromConstraintExprs(E, ParameterMapping, EvalState(depth), Crash).N = Crash
    THEN Indeterminate ELSE {Crash}

CallfromConstraintExprs ==
    /\ call = Idle
    /\ \E E \in NormalizerClauseLists, ParameterMapping \in NormalizerMappings :
        \E ub \in OutcomesFor_Exprs(E, ParameterMapping, instDepth) :
         call' = NormalizerCall("fromConstraintExprs", E, ParameterMapping,
                                fromConstraintExprs(E, ParameterMapping,
                                                    EvalState(instDepth), ub))
    /\ instDepth' = call'.depthAfter
    /\ UNCHANGED <<SatisfactionCache, SubsumptionCache, returned>>

NextNormalize ==
    \/ EnterInstantiation
    \/ ExitInstantiation
    \/ ReturnToCaller
    \/ CallfromConstraintExpr
    \/ CallfromConstraintExprs

SpecNormalize == InitSema /\ [][NextNormalize]_vars

IsNormalizerCall == call.op \in {"fromConstraintExpr", "fromConstraintExprs"}
ReturnsNormalized == IsNormalizerCall /\ call.N # None /\ call.N # Crash

\* The atomic constraints at the leaves of a normalized constraint, from
\* left to right
RECURSIVE LeavesOf(_)
LeavesOf(N) ==
    IF isAtomic(N) THEN <<N>> ELSE LeavesOf(N[2]) \o LeavesOf(N[3])

IsConnectiveOrParen(e) == isLogical(e) \/ Class(e) = "ParenExpr"

RECURSIVE SwapKinds(_)
SwapKinds(N) ==
    IF isAtomic(N) THEN N
    ELSE Compound(SwapKinds(N[2]), SwapKinds(N[3]),
                  IF getCompoundKind(N) = "CCK_Conjunction"
                  THEN "CCK_Disjunction" ELSE "CCK_Conjunction")

\* C15: for every normalized constraint N handed to subsumes, makeCNF(N) is
\* the same sequence of sequences of leaves as makeDNF of N with every
\* compound kind swapped (and makeDNF(N) as makeCNF of the swapped N).
C15_CNFIsDualOfDNF ==
    IsSubsumesCall =>
        /\ makeCNF(call.Q) = makeDNF(SwapKinds(call.Q))
        /\ makeCNF(call.P) = makeDNF(SwapKinds(call.P))
        /\ makeDNF(call.P) = makeCNF(SwapKinds(call.P))

\* C15 witness: a conjunction whose right operand is a conjunction of two
\* distinct leaves, whose clauses makeCNF appends last first.
C15_Witness ==
    /\ IsSubsumesCall
    /\ ~isAtomic(call.Q) /\ getCompoundKind(call.Q) = "CCK_Conjunction"
    /\ ~isAtomic(call.Q[3]) /\ getCompoundKind(call.Q[3]) = "CCK_Conjunction"
    /\ call.Q[3][2] # call.Q[3][3]
    /\ isAtomic(call.Q[2]) /\ isAtomic(call.Q[3][2]) /\ isAtomic(call.Q[3][3])
    /\ makeCNF(call.Q) = <<<<call.Q[2]>>, <<call.Q[3][3]>>, <<call.Q[3][2]>>>>

\* subsumes was called with the ambiguity detector's predicate on one atom
\* against one atom: DoesSubsume is the predicate's verdict on the two.
IsIdenticalLeafCall ==
    /\ IsSubsumesCall /\ call.E.kind = "Identical"
    /\ isAtomic(call.P) /\ isAtomic(call.Q)

SameOrProfileEqual(A, B) ==
    \/ ConstraintExprOf(A) = ConstraintExprOf(B)
    \/ ExprProfile(ConstraintExprOf(A)) = ExprProfile(ConstraintExprOf(B))

SubstitutedArgs(e, ParameterMapping) ==
    [i \in 1..Len(getTemplateArgsAsWritten(e)) |->
        SubstArg(getTemplateArgsAsWritten(e)[i], ParameterMapping)]

\* The leaves the rule of C17 gives for an expression under a mapping: an
\* atomic expression gets the innermost level (none: the empty mapping), a
\* concept specialization stands for its concept's expression under the one
\* level of its substituted arguments.  With dependentIsLeaf, a
\* specialization whose substituted arguments are instantiation-dependent
\* is itself a leaf, mapped by those arguments.
RECURSIVE LeavesByRule(_, _, _)
LeavesByRule(e, ParameterMapping, dependentIsLeaf) ==
    IF Class(e) = "ParenExpr"
    THEN LeavesByRule(getSubExpr(e), ParameterMapping, dependentIsLeaf)
    ELSE IF isLogical(e)
    THEN LeavesByRule(getLHS(e), ParameterMapping, dependentIsLeaf)
         \o LeavesByRule(getRHS(e), ParameterMapping, dependentIsLeaf)
    ELSE IF isCSE(e)
    THEN IF /\ dependentIsLeaf
            /\ CheckTemplateArgumentList(
                   SubstitutedArgs(e, ParameterMapping)).InstantiationDependent
         THEN <<AtomicConstraint(e, SubstitutedArgs(e, ParameterMapping))>>
         ELSE LeavesByRule(getConstraintExpr(getNamedConcept(e)),
                           <<SubstitutedArgs(e, ParameterMapping)>>,
                           dependentIsLeaf)
    ELSE <<AtomicConstraint(e, IF ParameterMapping = <<>> THEN <<>>
                               ELSE ParameterMapping[Len(ParameterMapping)])>>

IsfromConstraintExprCall == call.op = "fromConstraintExpr" /\ ReturnsNormalized

\* C17 as stated: in a returned normal form an atomic leaf reached directly
\* has the innermost level of the current mapping (the empty mapping when
\* there are no levels), and the leaves under a concept specialization
\* C<A1..An> are those of the concept's expression normalized under the one
\* level of the substituted A1..An.
C17_MappingsFollowTheRule ==
    IsfromConstraintExprCall =>
        LeavesOf(call.N) = LeavesByRule(call.E, call.ParameterMapping, FALSE)

\* C17, amended: the same, except that a concept specialization whose
\* substituted arguments are instantiation-dependent is itself the leaf,
\* with the substituted arguments as its mapping.
C17_MappingsFollowTheRuleOrDependent ==
    IsfromConstraintExprCall =>
        LeavesOf(call.N) = LeavesByRule(call.E, call.ParameterMapping, TRUE)

\* C17 witness: C2<T, U>, with C2 = C1<U, T>, normalized under {T=X, U=Y}
\* is the one atomic leaf of C1 with the mapping {T1=Y, T2=X}.
C17_Witness ==
    /\ IsfromConstraintExprCall
    /\ call.E = CSE("C2", <<"T0", "U0">>, "E")
    /\ call.ParameterMapping = <<<<"X", "Y">>>>
    /\ call.N = AtomicConstraint(Atom("C1::true"), <<"Y", "X">>)

IsfromConstraintExprsCall == call.op = "fromConstraintExprs"

\* C18: fromConstraintExprs over a non-empty clause list returns; it
\* returns None whenever normalizing any clause (the first one of two or
\* more included) returns None, and otherwise the left-associated
\* conjunction of the clauses' normal forms (for one clause, its normal
\* form).
C18_NoneFromAnyClause ==
    IsfromConstraintExprsCall =>
        /\ ~call.crashed
        /\ HardFailureIn(call.E, call.ParameterMapping) => call.N = None
        /\ ~HardFailureIn(call.E, call.ParameterMapping) =>
              call.N = ConjunctionOfClauses(call.E, call.ParameterMapping,
                                            Len(call.E))

\* The call in hand compares a declaration constrained by the concept c1
\* with one constrained by c2, both by the specialization on the
\* declaration's own parameter and under the same template arguments.
Compares(c1, c2) ==
    /\ IsMLTALCall
    /\ call.AC1 = <<CSE(c1, <<"T0">>, call.D1)>>
    /\ call.AC2 = <<CSE(c2, <<"T0">>, call.D2)>>
    /\ call.MLTAL1 = call.MLTAL2

\* C19: a parameter constrained by C<T> is not at least as constrained as
\* an argument constrained by D<T>, D = C<T> && g; the argument is at least
\* as constrained as the parameter; and two declarations constrained by the
\* same C<T> are each at least as constrained as the other.  None of the
\* calls is invalid.
C19_MoreConstrainedArgumentIsRejected ==
    /\ Compares("C", "D") => (~call.crashed /\ ~call.ret /\ ~call.Invalid)
    /\ Compares("D", "C") => (~call.crashed /\ call.ret /\ ~call.Invalid)
    /\ Compares("C", "C") => (~call.crashed /\ call.ret /\ ~call.Invalid)

\* C19 witness: S1<Y>, the parameter of S1 against the template Y, refused.
C19_Witness ==
    /\ Compares("C", "D") /\ call.D1 = "P1" /\ call.D2 = "Y"
    /\ call.MLTAL1 = <<>> /\ call.hasInvalid
    /\ ~call.ret /\ ~call.Invalid

(***************************************************************************)
(* concepts::ExprRequirement.  An expression is given by what Sema answers *)
(* about it; a return-type requirement is empty, a substitution            *)
(* diagnostic, an expected type (with the outcome Seq of initializing it   *)
(* from the expression) or a type constraint (with the satisfaction of its *)
(* substituted concept specialization).  Log is a ghost trace of the       *)
(* questions asked of Sema.                                                *)
(***************************************************************************)
CanThrowResults == {"CT_Cannot", "CT_Dependent", "CT_Can"}
RequirementExprs ==
    [InstantiationDependent : BOOLEAN, ContainsUnexpandedParameterPack : BOOLEAN,
     canThrow : CanThrowResults]

\* InitializationSequence: isAmbiguous() only when Failed()
InitializationSequences ==
    { [Failed |-> FALSE, Ambiguous |-> FALSE],
      [Failed |-> TRUE, Ambiguous |-> FALSE],
      [Failed |-> TRUE, Ambiguous |-> TRUE] }
NoSeq == [Failed |-> FALSE, Ambiguous |-> FALSE]

ReturnTypeRequirement(kind, Dependent, Pack, InitSeq, CSESatisfied) ==
    [kind |-> kind, Dependent |-> Dependent,
     ContainsUnexpandedParameterPack |-> Pack, Seq |-> InitSeq,
     CSESatisfied |-> CSESatisfied]
ReturnTypeRequirements ==
    { ReturnTypeRequirement("Empty", FALSE, FALSE, NoSeq, FALSE),
      ReturnTypeRequirement("SubstitutionDiagnostic", FALSE, FALSE, NoSeq, FALSE) }
    \cup { ReturnTypeRequirement("TypeSourceInfo", d, k, q, FALSE) :
             d \in BOOLEAN, k \in BOOLEAN, q \in InitializationSequences }
    \cup { ReturnTypeRequirement("TypeConstraintRequirement", d, k, NoSeq, c) :
             d \in BOOLEAN, k \in BOOLEAN, c \in BOOLEAN }

Calculated(Status, Log) == [Status |-> Status, Log |-> Log]

\* Mutant of calculateSatisfaction: Seq.Failed() is asked before
\* Seq.isAmbiguous().
calculateSatisfaction_FailedFirst(Req, Log) ==
    IF Req.kind = "Empty" THEN Calculated("SS_Satisfied", Log)
    ELSE IF Req.kind = "SubstitutionDiagnostic"
    THEN Calculated("SS_TypeRequirementSubstitutionFailure", Log)
    ELSE IF Req.kind = "TypeSourceInfo"
    THEN Calculated(IF Req.Seq.Failed THEN "SS_NoImplicitConversionExists"
                    ELSE IF Req.Seq.Ambiguous
                    THEN "SS_ImplicitConversionAmbiguous"
                    ELSE "SS_Satisfied",
                    Append(Log, "InitializationSequence"))
    ELSE Calculated(IF ~Req.CSESatisfied THEN "SS_ConstraintsNotSatisfied"
                    ELSE "SS_Satisfied",
                    Append(Log, "SubstExpr"))

\* ExprRequirement::ReturnTypeRequirement::calculateSatisfaction
calculateSatisfaction(Req, Log) ==
    IF Req.kind = "Empty" THEN Calculated("SS_Satisfied", Log)
    ELSE IF Req.kind = "SubstitutionDiagnostic"
    THEN Calculated("SS_TypeRequirementSubstitutionFailure", Log)
    ELSE IF Req.kind = "TypeSourceInfo"
    THEN Calculated(IF Req.Seq.Ambiguous THEN "SS_ImplicitConversionAmbiguous"
                    ELSE IF Req.Seq.Failed
                    THEN "SS_NoImplicitConversionExists"
                    ELSE "SS_Satisfied",
                    Append(Log, "InitializationSequence"))
    ELSE Calculated(IF ~Req.CSESatisfied THEN "SS_ConstraintsNotSatisfied"
                    ELSE "SS_Satisfied",
                    Append(Log, "SubstExpr"))

\* The Requirement base and the members of the ExprRequirement
Requirement(Kind, IsDependent, Pack, IsSatisfied, Status, Log) ==
    [Kind |-> Kind, Dependent |-> IsDependent,
     ContainsUnexpandedParameterPack |-> Pack, Satisfied |-> IsSatisfied,
     Status |-> Status, Log |-> Log]

\* Status = TypeReq.calculateSatisfaction(S, E);
\* setSatisfied(Status == SS_Satisfied);
AfterCalculate(Kind, Pack, c) ==
    Requirement(Kind, FALSE, Pack, c.Status = "SS_Satisfied", c.Status, c.Log)

\* if (NoexceptLoc.isValid() && S.canThrow(E) == CanThrowResult::CT_Can)
AfterDependent(Kind, Pack, E, NoexceptLocValid, Req) ==
    IF NoexceptLocValid /\ E.canThrow = "CT_Can"
    THEN Requirement(Kind, FALSE, Pack, FALSE, "SS_NoexceptNotMet", <<"canThrow">>)
    ELSE AfterCalculate(Kind, Pack,
                        calculateSatisfaction(
                            Req, IF NoexceptLocValid THEN <<"canThrow">>
                                 ELSE <<>>))

\* ExprRequirement::ExprRequirement(Sema &, Expr *, bool, SourceLocation,
\* ReturnTypeRequirement)
ExprRequirement(E, IsSimple, NoexceptLocValid, Req) ==
    IF E.InstantiationDependent \/ Req.Dependent
    THEN Requirement(IF IsSimple THEN "RK_Simple" ELSE "RK_Compound", TRUE,
                     E.ContainsUnexpandedParameterPack
                         \/ Req.ContainsUnexpandedParameterPack,
                     FALSE, "SS_Dependent", <<>>)
    ELSE AfterDependent(IF IsSimple THEN "RK_Simple" ELSE "RK_Compound",
                        E.ContainsUnexpandedParameterPack
                            \/ Req.ContainsUnexpandedParameterPack,
                        E, NoexceptLocValid, Req)

\* assert(!IsSimple || (Req.isEmpty() && NoexceptLoc.isInvalid()))
CallExprRequirement ==
    /\ call = Idle
    /\ \E E \in RequirementExprs, IsSimple \in BOOLEAN,
          NoexceptLocValid \in BOOLEAN, Req \in ReturnTypeRequirements :
         /\ IsSimple => (Req.kind = "Empty" /\ ~NoexceptLocValid)
         /\ call' = [op |-> "ExprRequirement", E |-> E, IsSimple |-> IsSimple,
                     NoexceptLocValid |-> NoexceptLocValid, Req |-> Req,
                     this |-> ExprRequirement(E, IsSimple, NoexceptLocValid, Req)]
    /\ UNCHANGED <<SatisfactionCache, SubsumptionCache, instDepth, returned>>

NextRequirement ==
    \/ EnterInstantiation
    \/ ExitInstantiation
    \/ ReturnToCaller
    \/ CallExprRequirement

SpecRequirement == InitSema /\ [][NextRequirement]_vars

IsExprRequirement == call.op = "ExprRequirement"
RequirementIsDependent == call.E.InstantiationDependent \/ call.Req.Dependent
NoexceptNotMet == call.NoexceptLocValid /\ call.E.canThrow = "CT_Can"
ReturnTypeEvaluated ==
    \E i \in 1..Len(call.this.Log) :
        call.this.Log[i] \in {"InitializationSequence", "SubstExpr"}

\* C20: an expression requirement gets its status at construction: a
\* dependent requirement is dependent and nothing is evaluated; otherwise,
\* noexcept requested and an expression that can throw give
\* noexcept-not-met without the return-type requirement being evaluated;
\* otherwise the status is the return-type requirement's result (empty:
\* satisfied; expected type: ambiguous initialization gives
\* conversion-ambiguous, else a failed one no-conversion, else satisfied;
\* type constraint: constraints-not-satisfied iff the substituted concept
\* specialization is unsatisfied).  The satisfied flag is true exactly when
\* the status is satisfied.
C20_StatusComputedInOrder ==
    IsExprRequirement =>
        /\ call.this.Satisfied <=> call.this.Status = "SS_Satisfied"
        /\ RequirementIsDependent =>
             (call.this.Status = "SS_Dependent" /\ call.this.Log = <<>>)
        /\ (~RequirementIsDependent /\ NoexceptNotMet) =>
             (call.this.Status = "SS_NoexceptNotMet" /\ ~ReturnTypeEvaluated)
        /\ (~RequirementIsDependent /\ ~NoexceptNotMet) =>
             /\ call.Req.kind = "Empty" => call.this.Status = "SS_Satisfied"
             /\ call.Req.kind = "TypeSourceInfo" =>
                  /\ call.Req.Seq.Ambiguous =>
                       call.this.Status = "SS_ImplicitConversionAmbiguous"
                  /\ (~call.Req.Seq.Ambiguous /\ call.Req.Seq.Failed) =>
                       call.this.Status = "SS_NoImplicitConversionExists"
                  /\ ~call.Req.Seq.Failed => call.this.Status = "SS_Satisfied"
             /\ call.Req.kind = "TypeConstraintRequirement" =>
                  /\ call.this.Status \in {"SS_ConstraintsNotSatisfied",
                                           "SS_Satisfied"}
                  /\ call.this.Status = "SS_ConstraintsNotSatisfied"
                       <=> ~call.Req.CSESatisfied

\* C20 witness: a compound requirement with noexcept on an expression that
\* cannot throw, whose expected type can be initialized from it only
\* ambiguously.
C20_Witness ==
    /\ IsExprRequirement /\ ~RequirementIsDependent
    /\ call.NoexceptLocValid /\ call.E.canThrow = "CT_Cannot"
    /\ call.Req.kind = "TypeSourceInfo" /\ call.Req.Seq.Ambiguous
    /\ call.this.Status = "SS_ImplicitConversionAmbiguous"
    /\ ~call.this.Satisfied
    /\ call.this.Log = <<"canThrow", "InitializationSequence">>

\* The uncached evaluation of the clause list of the call in hand under the
\* call's whole multilevel argument list, into an empty
\* ConstraintSatisfaction at an empty instantiation stack
Uncached ==
    CheckConstraintExprs(call.ConstraintExprs, 1,
                         SubstitutingWith(call.TemplateArgs,
                                          "ConstraintSubstitution", FALSE),
                         EvalState(0))

FirstOfPair == {h \in returned : h.D1 = call.D1 /\ h.D2 = call.D2}

\* C22: a cached IsAtLeastAsConstrained call with non-empty constraint
\* lists for a pair of declarations that was asked about before returns the
\* boolean and the *Invalid value the first call for the pair returned.
C22_PairRepeatsFirstCall ==
    (IsOrderingCall /\ call.AC1 # <<>> /\ call.AC2 # <<>>) =>
        \A h \in FirstOfPair :
            /\ ~call.crashed
            /\ call.ret = h.ret
            /\ call.hasInvalid => (call.Invalid = h.Invalid)

(***************************************************************************)
(* ConstraintSatisfaction::ConstraintSatisfaction(ConstraintSatisfaction   *)
(* &Other).  Only IsSatisfied has a member initializer: Details is         *)
(* default-constructed, empty, when the body runs, and the body's loop     *)
(* runs over Details, the new object's own list.                           *)
(***************************************************************************)
\* new PartialDiagnosticAt(*Diag): another object with the same contents
NewPartialDiagnosticAt(Diag) == <<"PartialDiagnosticAt", Diag[2]>>

\* for (UnsatisfiedConstraintRecord &Record : Records) ... appended to Details
RECURSIVE CopyRecords(_, _, _)
CopyRecords(Records, i, Details) ==
    IF i > Len(Records) THEN Details
    ELSE CopyRecords(
             Records, i + 1,
             Append(Details,
                    IF Records[i][2][1] = "PartialDiagnosticAt"
                    THEN Detail(Records[i][1],
                                NewPartialDiagnosticAt(Records[i][2]))
                    ELSE Records[i]))

ConstraintSatisfaction_Copy(Other) ==
    [IsSatisfied |-> Other.IsSatisfied, Details |-> CopyRecords(<<>>, 1, <<>>)]

\* The ConstraintSatisfactions the nested-requirement overload fills
CopySources ==
    { SatisfactionOf(CheckConstraintSatisfaction_Nested(e, TemplateArgs,
                                                        EvalState(0)).st) :
        e \in SourceExprs, TemplateArgs \in MLTALs }

CallConstraintSatisfaction_Copy ==
    /\ call = Idle
    /\ \E Other \in CopySources :
         call' = [op |-> "ConstraintSatisfaction", Other |-> Other,
                  this |-> ConstraintSatisfaction_Copy(Other)]
    /\ UNCHANGED <<SatisfactionCache, SubsumptionCache, instDepth, returned>>

NextCopy ==
    \/ EnterInstantiation
    \/ ExitInstantiation
    \/ ReturnToCaller
    \/ CallConstraintSatisfaction_Copy

SpecCopy == InitSema /\ [][NextCopy]_vars

IsCopyCall == call.op = "ConstraintSatisfaction"

\* C23: a ConstraintSatisfaction copy-constructed from another has the
\* other's IsSatisfied and a Details list of the same length and order,
\* each record with the other's expression and an equal substitution
\* diagnostic or the same substituted expression.
C23_CopyHasTheDetails ==
    IsCopyCall =>
        /\ call.this.IsSatisfied = call.Other.IsSatisfied
        /\ Len(call.this.Details) = Len(call.Other.Details)
        /\ \A i \in 1..Len(call.Other.Details) :
               call.this.Details[i] = call.Other.Details[i]

(***************************************************************************)
(* NestedRequirement::NestedRequirement.  The requirement is built with    *)
(* Dependent, ContainsUnexpandedParameterPack and Satisfied false; the     *)
(* constructor calls one of the two CheckConstraintSatisfaction overloads  *)
(* and does not read what the call returns.                                *)
(***************************************************************************)
\* ASTConstraintSatisfaction::Create(S.Context, IsSatisfied, Details)
ASTConstraintSatisfaction_Create(IsSatisfied, Details) ==
    [IsSatisfied |-> IsSatisfied, Details |-> Details]

\* The constructor after its call r to CheckConstraintSatisfaction; failed
\* is the value the call returned, which the constructor drops.
AfterNestedCheck(Constraint, TemplateArgs, r) ==
    [Kind |-> "RK_Nested", ConstraintExpr |-> Constraint,
     Dependent |-> IF getNumLevels(TemplateArgs) = 0 THEN FALSE
                   ELSE r.st.IsDependent,
     ContainsUnexpandedParameterPack |->
         IF getNumLevels(TemplateArgs) = 0 THEN FALSE
         ELSE r.st.ContainsUnexpandedParameterPack,
     Satisfaction |-> ASTConstraintSatisfaction_Create(r.st.IsSatisfied,
                                                       r.st.Details),
     Satisfied |-> r.st.IsSatisfied,
     failed |-> r.ret, Depth |-> r.st.Depth]

NestedRequirement(Constraint, TemplateArgs, depth) ==
    AfterNestedCheck(
        Constraint, TemplateArgs,
        IF getNumLevels(TemplateArgs) = 0
        THEN CheckConstraintSatisfaction_Expr(Constraint, EvalState(depth))
        ELSE CheckConstraintSatisfaction_Nested(Constraint, TemplateArgs,
                                                EvalState(depth)))

\* A requirement is built from a substituted constraint and no template
\* arguments, or from a constraint as written and template arguments.
NestedRequirementInputs ==
    (SubstitutedExprs \X {<<>>}) \cup (SourceExprs \X MLTALs)

CallNestedRequirement ==
    /\ call = Idle
    /\ \E in \in NestedRequirementInputs :
         /\ call' = [op |-> "NestedRequirement", Constraint |-> in[1],
                     TemplateArgs |-> in[2], depthBefore |-> instDepth,
                     this |-> NestedRequirement(in[1], in[2], instDepth)]
         /\ instDepth' = call'.this.Depth
    /\ UNCHANGED <<SatisfactionCache, SubsumptionCache, returned>>

NextNested ==
    \/ EnterInstantiation
    \/ ExitInstantiation
    \/ ReturnToCaller
    \/ CallNestedRequirement

SpecNested == InitSema /\ [][NextNested]_vars

IsNestedRequirement == call.op = "NestedRequirement"

\* C24: a nested requirement is marked satisfied only if the satisfaction
\* evaluation run at its construction returned without hard failure and
\* with IsSatisfied true.
C24_SatisfiedOnlyWithoutHardFailure ==
    (IsNestedRequirement /\ call.this.Satisfied) =>
        /\ ~call.this.failed
        /\ call.this.Satisfaction.IsSatisfied

\* Both sides of the call in hand normalize, and in at least one direction
\* subsumption under the identical-expression predicate differs from
\* subsumption under the structural predicate.
ResultsDiffer ==
    /\ call.AC1 # <<>> /\ call.AC2 # <<>>
    /\ ~HardFailureIn(call.AC1, call.MLTAL1)
    /\ ~HardFailureIn(call.AC2, call.MLTAL2)
    /\ \/ subsumes(Side1, Side2, Identical, <<>>).DoesSubsume
              # subsumes(Side1, Side2, Normal, <<>>).DoesSubsume
       \/ subsumes(Side2, Side1, Identical, <<>>).DoesSubsume
              # subsumes(Side2, Side1, Normal, <<>>).DoesSubsume

\* C25: in MaybeEmitAmbiguousAtomicConstraintsDiagnostic, whenever the
\* subsumption runs differ between the identical-expression predicate and
\* the structural predicate in at least one direction, both captured atoms
\* are set (the assertion holds and the call returns true), and the two
\* notes are at two distinct expressions with equal canonical profiles.
C25_DifferenceHasBothCaptures ==
    /\ (IsDiagnosticCall /\ ResultsDiffer) => (~call.crashed /\ call.ret)
    /\ (IsDiagnosticCall /\ call.ret) =>
          /\ Len(call.Notes) = 2
          /\ call.Notes[1] # call.Notes[2]
          /\ ExprProfile(call.Notes[1]) = ExprProfile(call.Notes[2])

\* C25 witness: Y (constrained by D, which is C and an atom of its own)
\* against W (constrained by F): the conjunction subsumes F's atom only
\* under the identical-expression predicate, and the notes are at F's and
\* at C's T::f().
C25_Witness ==
    /\ IsDiagnosticCall /\ ResultsDiffer
    /\ call.D1 = "Y" /\ call.D2 = "W"
    /\ ~isAtomic(Side1)
    /\ subsumes(Side1, Side2, Identical, <<>>).DoesSubsume
    /\ ~subsumes(Side1, Side2, Normal, <<>>).DoesSubsume
    /\ call.ret /\ call.Notes = <<Atom("F::f"), Atom("C::f")>>

\* The truth value of a normalized constraint, of a conjunction of
\* disjunctions and of a disjunction of conjunctions under the assignment
\* v of truth values to atomic constraints.
RECURSIVE TruthOf(_, _)
TruthOf(N, v) ==
    IF isAtomic(N) THEN v[N]
    ELSE IF getCompoundKind(N) = "CCK_Conjunction"
    THEN TruthOf(N[2], v) /\ TruthOf(N[3], v)
    ELSE TruthOf(N[2], v) \/ TruthOf(N[3], v)
TruthOfCNF(NF, v) ==
    \A i \in 1..Len(NF) : \E k \in 1..Len(NF[i]) : v[NF[i][k]]
TruthOfDNF(NF, v) ==
    \E i \in 1..Len(NF) : \A k \in 1..Len(NF[i]) : v[NF[i][k]]
AtomsOfNF(NF) == UNION ClauseSets(NF)
LeafSet(N) == {LeavesOf(N)[i] : i \in 1..Len(LeavesOf(N))}

PreservedBy(N, CNF, DNF) ==
    /\ \A v \in [Atoms -> BOOLEAN] :
          /\ TruthOfCNF(CNF, v) = TruthOf(N, v)
          /\ TruthOfDNF(DNF, v) = TruthOf(N, v)
    /\ AtomsOfNF(CNF) = LeafSet(N)
    /\ AtomsOfNF(DNF) = LeafSet(N)
NormalFormsPreserve(N) == PreservedBy(N, makeCNF(N), makeDNF(N))

\* C26: for every normalized constraint N handed to subsumes and every
\* truth assignment to its atomic leaves, makeCNF(N) read as a conjunction
\* of disjunctions and makeDNF(N) read as a disjunction of conjunctions
\* evaluate to the truth value of N, and the atoms of each normal form are
\* exactly the leaves of N.
\* (The normal forms do not depend on the leaf predicate: the calls with
\* the structural predicate carry every P and Q.)
C26_NormalFormsPreserveTruth ==
    (IsSubsumesCall /\ call.E = Normal) =>
        (NormalFormsPreserve(call.P) /\ NormalFormsPreserve(call.Q))

\* C26 witness: Q is (a && b) || c over three distinct atoms, whose
\* conjunctive normal form is the two clauses (a || c) and (b || c).
C26_Witness ==
    /\ IsSubsumesCall /\ call.E = Normal
    /\ ~isAtomic(call.Q) /\ getCompoundKind(call.Q) = "CCK_Disjunction"
    /\ ~isAtomic(call.Q[2]) /\ getCompoundKind(call.Q[2]) = "CCK_Conjunction"
    /\ isAtomic(call.Q[2][2]) /\ isAtomic(call.Q[2][3]) /\ isAtomic(call.Q[3])
    /\ Cardinality(LeafSet(call.Q)) = 3
    /\ makeCNF(call.Q) = <<<<call.Q[2][2], call.Q[3]>>, <<call.Q[2][3], call.Q[3]>>>>
    /\ makeDNF(call.Q) = <<<<call.Q[2][2], call.Q[2][3]>>, <<call.Q[3]>>>>

\* C27: whenever CheckConstraintExpression returns false and a culprit
\* out-pointer was supplied, the out-pointer has been set to the offending
\* atomic sub-expression (the one the error was emitted at), including when
\* that atomic lies below an && or || node.
C27_CulpritIsTheOffendingAtomic ==
    (IsCheckCall /\ call.hasCulprit /\ ~call.r.ok) =>
        /\ call.r.Culprit # <<>>
        /\ call.r.Culprit = call.r.Diags[1]
====
